---- MODULE Spec2Model ----
(***************************************************************************)
(* A model of libvpuppr's tracking pipeline: the MeowFace receiver         *)
(* (create / start / poll / stop, its worker thread and its two mpsc       *)
(* channels), the iFacialMocap text decoders, the VTube Studio JSON        *)
(* decoders, the VRM and GLB puppets, the command line and the log store.  *)
(***************************************************************************)
EXTENDS Integers, Sequences, FiniteSets, TLC

(***************************************************************************)
(* Bounds of the model.                                                    *)
(***************************************************************************)
\* successful start() calls (worker threads ever spawned)
MaxStarts == 2
\* frames pending on one data channel
MaxQueue == 2
\* frames one worker forwards in its lifetime
MaxSent == 3

\* Option::None for the receiver's Option fields; Some(g) is the generation g >= 1
None == 0

Gens == 1..MaxStarts

VARIABLES
    exists,          \* a MeowFace object has been constructed
    ip_address,      \* MeowFace.ip_address: None or the parsed endpoint
    receive_handle,  \* MeowFace.receive_handle: None or the worker's generation
    thread_killer,   \* MeowFace.thread_killer: None or the cancellation channel's generation
    receiver,        \* MeowFace.receiver: None or the data channel's generation
    data,            \* MeowFace.data
    workers,         \* per generation: position of the worker thread in its loop
    dataq,           \* per generation: frames pending on the data channel
    cancelq,         \* per generation: signals pending on the cancellation channel
    cpc,             \* the consumer thread: "idle" between calls, "joining" inside stop()
    joinee,          \* the handle stop() took and is joining, else None
    op,              \* the consumer's last call
    ret,             \* what that call returned
    clog,            \* the messages that call logged
    wlog,            \* the message the last worker step logged
    sent,            \* history: frames put on the data channel self.receiver holds
    polled,          \* history: frames poll() took from that channel
    puppet,          \* the puppet's head bone pose
    input,           \* text decoder: the byte buffer
    dpc,             \* text decoder: which of the two decoders has run
    out_dp,          \* DataParser::ifacial_mocap(input)
    out_td,          \* IFacialMocapData::from(input)
    jdoc,            \* JSON decoder: the document in the byte buffer
    jpc,             \* JSON decoder: which of the two decoders has run
    out_vdp,         \* DataParser::vtube_studio(jdoc)
    out_vts,         \* VTubeStudioData::from(jdoc)
    vrm,             \* VrmPuppet: skeleton, ik_targets_3d, the two mapping tables
    glb,             \* GlbPuppet: skeleton, the head bone's pose rotation
    avatar,          \* the scene VrmPuppet became ready in: bones, mesh, animations
    weights,         \* the blend-shape values of the avatar's mesh, by name
    pop,             \* the puppets' last call: handler and frame
    pret,            \* what that call came to: "()" or "panic"
    cli,             \* command line: the last Args::parse, its arguments and result
    tracker,         \* command line: the last Tracker::from_str, its text and result
    rust_log,        \* LibVpuppr::init_rust_log: its arguments and the global level
    LOG_STORE,       \* logger: the static Vec of messages not yet flushed
    log_file,        \* logger: the messages written to user://vpuppr.log so far
    logging,         \* logger: per thread, its position inside Logger::log
    log_calls        \* logger: per thread, the Logger::log calls it made

rvars == <<exists, ip_address, receive_handle, thread_killer, receiver, data,
           workers, dataq, cancelq, cpc, joinee, op, ret, clog, wlog, sent, polled, puppet>>
dvars == <<input, dpc, out_dp, out_td>>
jvars == <<jdoc, jpc, out_vdp, out_vts>>
pvars == <<vrm, glb, avatar, weights, pop, pret>>
cvars == <<cli, tracker, rust_log>>
lvars == <<LOG_STORE, log_file, logging, log_calls>>
vars == <<rvars, dvars, jvars, pvars, cvars, lvars>>
\* what the receiver, the text decoders, the JSON decoders and the puppets
\* leave alone
nonReceiver == <<dvars, jvars, pvars, cvars, lvars>>
nonDecoder == <<rvars, jvars, pvars, cvars, lvars>>
nonJson == <<rvars, dvars, pvars, cvars, lvars>>
nonPuppet == <<rvars, dvars, jvars, cvars, lvars>>
nonCli == <<rvars, dvars, jvars, pvars, lvars>>
nonLogger == <<rvars, dvars, jvars, pvars, cvars>>

(***************************************************************************)
(* Values                                                                  *)
(***************************************************************************)
Vector3(x, y, z) == <<x, y, z>>
Vector3Zero == Vector3(0, 0, 0)

\* #[derive(Default)] Data: empty map, zero vectors
DataDefault ==
    [blend_shapes |-> <<>>,
     head_rotation |-> Vector3Zero, head_position |-> Vector3Zero,
     left_eye_rotation |-> Vector3Zero, right_eye_rotation |-> Vector3Zero]

\* Data::from(InData): the fields are copied one to one
DataFrom(v) ==
    [blend_shapes |-> v.blend_shapes,
     head_rotation |-> v.rotation, head_position |-> v.position,
     left_eye_rotation |-> v.eye_left, right_eye_rotation |-> v.eye_right]

\* The InData documents the remote application sends in this model.
InDataSet ==
    { [rotation |-> Vector3(1, 0, 0), position |-> Vector3(0, 2, 0),
       eye_left |-> Vector3(0, 0, 1), eye_right |-> Vector3(0, 0, 1),
       blend_shapes |-> <<>>],
      [rotation |-> Vector3(0, 3, 0), position |-> Vector3(4, 0, 0),
       eye_left |-> Vector3(1, 0, 0), eye_right |-> Vector3(1, 0, 0),
       blend_shapes |-> <<>>] }

Msg(lvl, text) == [lvl |-> lvl, text |-> text]

(***************************************************************************)
(* create(config): the dictionary and the endpoint text                    *)
(***************************************************************************)
\* A Godot String as the sequence of its characters; a Variant carries its type.
\* `value` is the text stringify() gives; a key the dictionary lacks is "Absent".
VString(s) == [type |-> "String", value |-> s]
VInt(s) == [type |-> "Int", value |-> s]
VAbsent == [type |-> "Absent", value |-> <<>>]

AddressTexts ==
    { <<"1","2","7",".","0",".","0",".","1">>,
      <<"2","5","6",".","0",".","0",".","1">>,
      <<"0","1",".","0",".","0",".","1">>,
      <<"1",".","2",".","3">>,
      <<"1",".","2",".","3",".","4",":","5">>,
      <<"h","o","s","t">>,
      <<>> }

PortTexts ==
    { <<"2","1","4","1","2">>,
      <<"6","5","5","3","6">>,
      <<"8","0","a">>,
      <<>> }

AddressVariants ==
    {VString(s) : s \in AddressTexts} \cup {VInt(<<"1","2","7">>), VAbsent}
PortVariants ==
    {VString(s) : s \in PortTexts} \cup {VInt(<<"2","1","4","1","2">>), VAbsent}

\* The dictionaries create() is called with.
Configs == [address : AddressVariants, port : PortVariants]

DigitChars == <<"0", "1", "2", "3", "4", "5", "6", "7", "8", "9">>
IsDigit(c) == \E i \in 1..10 : DigitChars[i] = c
DigitVal(c) == (CHOOSE i \in 1..10 : DigitChars[i] = c) - 1

\* std::net's Parser::read_number: the run of digits starting at s[i], read
\* greedily; fails on no digit, on more than max_digits digits (0: no limit), on
\* a value above max_value (checked arithmetic of the target integer type) and,
\* unless allow_zero_prefix, on a leading zero followed by more digits.
RECURSIVE DigitsEnd(_, _)
DigitsEnd(s, i) ==
    IF i <= Len(s) /\ IsDigit(s[i]) THEN DigitsEnd(s, i + 1) ELSE i

RECURSIVE NumValue(_, _, _)
NumValue(s, i, j) ==
    IF j <= i THEN 0 ELSE NumValue(s, i, j - 1) * 10 + DigitVal(s[j - 1])

\* read_number without the overflow check
ReadNumberLax(s, i, max_digits, allow_zero_prefix, max_value) ==
    LET j == DigitsEnd(s, i)
        n == j - i
    IN IF n = 0 \/ (max_digits > 0 /\ n > max_digits)
          \/ (~allow_zero_prefix /\ s[i] = "0" /\ n > 1)
       THEN [ok |-> FALSE, val |-> 0, next |-> i]
       ELSE [ok |-> TRUE, val |-> NumValue(s, i, j), next |-> j]

ReadNumber(s, i, max_digits, allow_zero_prefix, max_value) ==
    LET j == DigitsEnd(s, i)
        n == j - i
    IN IF n = 0 \/ (max_digits > 0 /\ n > max_digits)
          \/ (~allow_zero_prefix /\ s[i] = "0" /\ n > 1)
          \/ NumValue(s, i, j) > max_value
       THEN [ok |-> FALSE, val |-> 0, next |-> i]
       ELSE [ok |-> TRUE, val |-> NumValue(s, i, j), next |-> j]

ReadGivenChar(s, i, c) == i <= Len(s) /\ s[i] = c

U8Max == 255
U16Max == 65535

\* Parser::read_ipv4_addr from position i: four groups separated by '.'
RECURSIVE ReadGroups(_, _, _)
ReadGroups(s, i, k) ==
    LET sepOk == k = 1 \/ ReadGivenChar(s, i, ".")
        start == IF k = 1 THEN i ELSE i + 1
        n == ReadNumber(s, start, 3, FALSE, U8Max)
    IN IF ~sepOk \/ ~n.ok THEN [ok |-> FALSE, val |-> <<>>, next |-> i]
       ELSE IF k = 4 THEN [ok |-> TRUE, val |-> <<n.val>>, next |-> n.next]
       ELSE LET rest == ReadGroups(s, n.next, k + 1)
            IN IF rest.ok
               THEN [ok |-> TRUE, val |-> <<n.val>> \o rest.val, next |-> rest.next]
               ELSE [ok |-> FALSE, val |-> <<>>, next |-> i]

\* Option<SocketAddrV4>::None
IpNone == [some |-> FALSE, ip |-> <<>>, port |-> 0]

\* str::parse::<SocketAddrV4>: address, ':', port, and nothing after it
ParseSocketAddrV4(s) ==
    LET ip == ReadGroups(s, 1, 1)
    IN IF ~ip.ok \/ ~ReadGivenChar(s, ip.next, ":") THEN IpNone
       ELSE LET port == ReadNumber(s, ip.next + 1, 0, TRUE, U16Max)
            IN IF port.ok /\ port.next = Len(s) + 1
               THEN [some |-> TRUE, ip |-> ip.val, port |-> port.val]
               ELSE IpNone

\* create(): the value of a key, or the error create() logs for it
CreateField(config, key, missingMsg, typeMsg) ==
    IF config[key].type = "Absent" THEN [ok |-> FALSE, value |-> <<>>, err |-> missingMsg]
    ELSE IF config[key].type # "String" THEN [ok |-> FALSE, value |-> <<>>, err |-> typeMsg]
    ELSE [ok |-> TRUE, value |-> config[key].value, err |-> ""]

CreateResult(config) ==
    LET address == CreateField(config, "address", "MeowFace expected an 'address'.",
                               "Unable to convert address to string.")
        port == CreateField(config, "port", "MeowFace expected a 'port'.",
                            "Unable to convert port to string.")
    IN IF ~address.ok THEN [some |-> FALSE, ip_address |-> IpNone, err |-> address.err]
       ELSE IF ~port.ok THEN [some |-> FALSE, ip_address |-> IpNone, err |-> port.err]
       ELSE LET parsed == ParseSocketAddrV4(address.value \o <<":">> \o port.value)
            IN IF ~parsed.some
               THEN [some |-> FALSE, ip_address |-> IpNone, err |-> "AddrParseError"]
               ELSE [some |-> TRUE, ip_address |-> parsed, err |-> ""]

(***************************************************************************)
(* The receiver: threads, sockets, channels                                *)
(***************************************************************************)
\* A worker thread runs from its spawn until its closure returns.
Alive(g) == workers[g] \in {"top", "send", "recv"}

\* The closure owns the socket (moved into it): open exactly while the thread runs.
SocketOpen(g) == Alive(g)

\* The data channel's Sender lives in the closure, its Receiver in self.receiver.
DataSenderAlive(g) == Alive(g)
DataReceiverAlive(g) == receiver = g

\* The cancellation channel's Receiver lives in the closure.
CancelReceiverAlive(g) == Alive(g)

\* bind with SO_REUSEADDR set: another socket on the port does not refuse it
BindReusingPort(envOk) == IF envOk THEN "Ok" ELSE "Other"

\* UdpSocket::bind((UNSPECIFIED, 21412)): refused with AddrInUse while a socket of
\* this process is bound to the fixed port, else as the environment decides.
Bind(envOk) ==
    IF \E g \in Gens : SocketOpen(g) THEN "AddrInUse"
    ELSE IF envOk THEN "Ok" ELSE "Other"

\* What the environment lets succeed in one start() call.
StartEnvs == [bind : BOOLEAN, set_nonblocking : BOOLEAN,
              set_read_timeout : BOOLEAN, connect : BOOLEAN]

\* start() that goes on to the spawn when connect failed
StartOutcomeUnconnected(env) ==
    LET hello == <<Msg("info", "Starting MeowFace!")>>
    IN IF ~ip_address.some
       THEN [ret |-> "ERR_UNCONFIGURED", log |-> hello, spawn |-> FALSE]
       ELSE IF Bind(env.bind) # "Ok"
       THEN [ret |-> "ERR_CANT_CONNECT", spawn |-> FALSE,
             log |-> hello \o <<Msg("error", "Unable to bind socket: Other")>>]
       ELSE IF ~env.set_nonblocking
       THEN [ret |-> "ERR_CANT_CREATE", spawn |-> FALSE,
             log |-> hello \o <<Msg("error", "Unable to set socket as blocking")>>]
       ELSE IF ~env.connect
       THEN [ret |-> "ERR_CANT_CONNECT", spawn |-> TRUE,
             log |-> hello \o <<Msg("error", "Unable to connect to address")>>]
       ELSE [ret |-> "OK", spawn |-> TRUE, log |-> hello]

\* start() up to the spawn: the status it returns, what it logs, whether it
\* reaches the spawn.
StartOutcome(env) ==
    LET hello == <<Msg("info", "Starting MeowFace!")>>
        timeoutLog == IF env.set_read_timeout THEN <<>>
                      ELSE <<Msg("error", "Unable to set read timeout for socket")>>
    IN IF ~ip_address.some
       THEN [ret |-> "ERR_UNCONFIGURED", log |-> hello, spawn |-> FALSE]
       ELSE IF Bind(env.bind) # "Ok"
       THEN [ret |-> "ERR_CANT_CONNECT", spawn |-> FALSE,
             log |-> hello \o <<Msg("error", IF Bind(env.bind) = "AddrInUse"
                                                THEN "Unable to bind socket: AddrInUse"
                                                ELSE "Unable to bind socket: Other")>>]
       ELSE IF ~env.set_nonblocking
       THEN [ret |-> "ERR_CANT_CREATE", spawn |-> FALSE,
             log |-> hello \o <<Msg("error", "Unable to set socket as blocking")>>]
       ELSE IF ~env.connect
       THEN [ret |-> "ERR_CANT_CONNECT", spawn |-> FALSE,
             log |-> hello \o timeoutLog \o <<Msg("error", "Unable to connect to address")>>]
       ELSE [ret |-> "OK", spawn |-> TRUE, log |-> hello \o timeoutLog]

Unborn == {g \in Gens : workers[g] = "unborn"}
FreshGen == CHOOSE g \in Unborn : \A h \in Unborn : g <= h

\* The head bone's pose before any receiver wrote it.
PuppetRest == [bone_pose_position |-> Vector3(0, 5, 0),
               bone_pose_rotation |-> [from_euler |-> Vector3(0, 0, 5)]]

\* Quaternion::from_euler, kept symbolic
QuaternionFromEuler(v) == [from_euler |-> v]

RInit ==
    /\ exists = FALSE
    /\ ip_address = IpNone
    /\ receive_handle = None
    /\ thread_killer = None
    /\ receiver = None
    /\ data = DataDefault
    /\ workers = [g \in Gens |-> "unborn"]
    /\ dataq = [g \in Gens |-> <<>>]
    /\ cancelq = [g \in Gens |-> 0]
    /\ cpc = "idle"
    /\ joinee = None
    /\ op = "none"
    /\ ret = "none"
    /\ clog = <<>>
    /\ wlog = Msg("none", "")
    /\ sent = <<>>
    /\ polled = <<>>
    /\ puppet = PuppetRest

\* Dictionary::new() with an empty blend-shape dictionary; a key that was not
\* inserted is absent (some = FALSE).
Absent == [some |-> FALSE, v |-> <<>>]
Some(x) == [some |-> TRUE, v |-> x]
DictionaryNew ==
    [rotation |-> Absent, position |-> Absent, right_eye |-> Absent,
     left_eye |-> Absent, blend_shapes |-> <<>>, errors |-> <<>>]

DIdle ==
    /\ input = <<>>
    /\ dpc = [on |-> FALSE, dp |-> FALSE, td |-> FALSE]
    /\ out_dp = DictionaryNew
    /\ out_td = DictionaryNew

\* #[derive(Default)] VTubeStudioData: every Option field None
VTubeStudioDataDefault ==
    [rotation |-> Absent, position |-> Absent, eye_left |-> Absent,
     eye_right |-> Absent, blend_shapes |-> Absent, errors |-> <<>>]

JIdle ==
    /\ jdoc = <<>>
    /\ jpc = [on |-> FALSE, dp |-> FALSE, vts |-> FALSE]
    /\ out_vdp = VTubeStudioDataDefault
    /\ out_vts = VTubeStudioDataDefault

\* IkTargets3d::default() and the puppets' init(): no skeleton, no target, empty
\* tables, head_bone_id -1
NoTarget == [some |-> FALSE, position |-> <<>>, rotation_degrees |-> <<>>]
NoTransform == [origin |-> <<>>, euler |-> <<>>]
VrmPuppetInit ==
    [ready |-> FALSE, skeleton |-> FALSE,
     ik |-> [some |-> FALSE, head |-> NoTarget, left_hand |-> NoTarget,
             right_hand |-> NoTarget, head_starting_transform |-> NoTransform,
             left_hand_starting_transform |-> NoTransform,
             right_hand_starting_transform |-> NoTransform],
     blend_shape_mappings |-> <<>>, expression_mappings |-> <<>>]
GlbPuppetInit ==
    [skeleton |-> FALSE, head_bone_id |-> -1,
     head_pose_rotation |-> [kind |-> "rest", v |-> <<>>],
     blend_shape_mappings |-> <<>>]

PInit ==
    /\ vrm = VrmPuppetInit
    /\ glb = GlbPuppetInit
    /\ avatar = <<>>
    /\ weights = <<>>
    /\ pop = [handler |-> "none", frame |-> <<>>]
    /\ pret = "none"

\* nothing of the command line has been called
NoTracker == [variant |-> "none", name |-> <<>>]
ArgsDefault ==
    [ok |-> FALSE, verbose |-> FALSE, quiet |-> FALSE, has_command |-> FALSE,
     runner_data |-> <<>>, tracker |-> Absent]
CIdle ==
    /\ cli = [called |-> FALSE, args |-> <<>>, parsed |-> ArgsDefault]
    /\ tracker = [called |-> FALSE, input |-> <<>>, ok |-> FALSE, v |-> NoTracker]
    /\ rust_log = [called |-> FALSE, quiet |-> FALSE, verbose |-> FALSE, level |-> "none"]

\* the two threads that log, and a thread that is not inside Logger::log
LogThreads == {"consumer", "worker"}
NotLogging == [pc |-> "idle", message |-> <<>>, len |-> 0, opened |-> FALSE]

\* no thread has logged anything
LIdle ==
    /\ LOG_STORE = <<>>
    /\ log_file = {}
    /\ logging = [t \in LogThreads |-> NotLogging]
    /\ log_calls = [t \in LogThreads |-> 0]

Init == RInit /\ DIdle /\ JIdle /\ PInit /\ CIdle /\ LIdle

\* MeowFace::init (Godot's MeowFace.new()): Self::new(), no address
InitObject ==
    /\ ~exists
    /\ exists' = TRUE
    /\ op' = "init" /\ ret' = "Some" /\ clog' = <<>>
    /\ UNCHANGED <<ip_address, receive_handle, thread_killer, receiver, data, workers,
                   dataq, cancelq, cpc, joinee, wlog, sent, polled, puppet>>
    /\ UNCHANGED nonReceiver

\* MeowFace::create
create(config) ==
    LET r == CreateResult(config)
    IN /\ ~exists
       /\ exists' = r.some
       /\ ip_address' = r.ip_address
       /\ op' = "create"
       /\ ret' = IF r.some THEN "Some" ELSE "None"
       /\ clog' = IF r.some THEN <<>> ELSE <<Msg("error", r.err)>>
       /\ UNCHANGED <<receive_handle, thread_killer, receiver, data, workers,
                      dataq, cancelq, cpc, joinee, wlog, sent, polled, puppet>>
       /\ UNCHANGED nonReceiver

\* start() that keeps the channel end it already holds
StartKeepingReceiver(env) ==
    LET o == StartOutcome(env)
    IN /\ exists /\ cpc = "idle"
       /\ o.spawn => Unborn # {}
       /\ op' = "start" /\ ret' = o.ret /\ clog' = o.log
       /\ IF o.spawn
          THEN /\ workers' = [workers EXCEPT ![FreshGen] = "top"]
               /\ receive_handle' = FreshGen
               /\ thread_killer' = FreshGen
               /\ receiver' = IF receiver = None THEN FreshGen ELSE receiver
               /\ UNCHANGED <<dataq, sent, polled>>
          ELSE UNCHANGED <<workers, receive_handle, thread_killer, receiver, dataq,
                           sent, polled>>
       /\ UNCHANGED <<exists, ip_address, data, cancelq, cpc, joinee, wlog, puppet>>
       /\ UNCHANGED nonReceiver

\* MeowFace::start. The spawn makes generation FreshGen: the thread, its socket
\* and the two channels; assigning self.receiver drops the Receiver held before,
\* and the frames still pending on it.
start(env) ==
    LET o == StartOutcome(env)
    IN /\ exists /\ cpc = "idle"
       /\ o.spawn => Unborn # {}
       /\ op' = "start" /\ ret' = o.ret /\ clog' = o.log
       /\ IF o.spawn
          THEN /\ workers' = [workers EXCEPT ![FreshGen] = "top"]
               /\ receive_handle' = FreshGen
               /\ thread_killer' = FreshGen
               /\ receiver' = FreshGen
               /\ dataq' = [g \in Gens |-> IF g = receiver THEN <<>> ELSE dataq[g]]
               /\ sent' = <<>>
               /\ polled' = <<>>
          ELSE UNCHANGED <<workers, receive_handle, thread_killer, receiver, dataq,
                           sent, polled>>
       /\ UNCHANGED <<exists, ip_address, data, cancelq, cpc, joinee, wlog, puppet>>
       /\ UNCHANGED nonReceiver

\* stop() when there is nothing to join: logs `text`; poll() drops the status.
StopEarly(caller, pre, text) ==
    /\ ret' = IF caller = "stop" THEN "ERR_UNAVAILABLE" ELSE "()"
    /\ clog' = pre \o <<Msg("error", text)>>
    /\ UNCHANGED <<receive_handle, cancelq, cpc, joinee>>

\* stop() from thread_killer.send(()) to receive_handle.take(): the send fails
\* only when the worker's end of the channel is gone. join() blocks: the call
\* goes on in StopJoin.
StopSignalAndTake(pre) ==
    /\ IF CancelReceiverAlive(thread_killer)
       THEN /\ cancelq' = [cancelq EXCEPT ![thread_killer] = @ + 1]
            /\ clog' = pre
       ELSE /\ cancelq' = cancelq
            /\ clog' = pre \o <<Msg("error", "MAJOR BUG: SendError")>>
    /\ joinee' = receive_handle
    /\ receive_handle' = None
    /\ cpc' = "joining"
    /\ ret' = "pending"

\* stop() that reports success when there is nothing to stop
StopBodyLenient(caller, pre) ==
    /\ op' = caller
    /\ IF receive_handle = None \/ thread_killer = None
       THEN /\ ret' = IF caller = "stop" THEN "OK" ELSE "()"
            /\ clog' = pre
            /\ UNCHANGED <<receive_handle, cancelq, cpc, joinee>>
       ELSE StopSignalAndTake(pre)

\* stop() that joins the worker without signalling it
StopBodyWithoutSignal(caller, pre) ==
    /\ op' = caller
    /\ IF receive_handle = None
       THEN StopEarly(caller, pre, "Receiver was not started.")
       ELSE /\ joinee' = receive_handle
            /\ receive_handle' = None
            /\ cpc' = "joining"
            /\ ret' = "pending"
            /\ clog' = pre
            /\ cancelq' = cancelq

\* The body of stop(), called as `caller`: "stop", or "poll" for poll()'s
\* self.stop(), after poll() logged `pre`.
StopBody(caller, pre) ==
    /\ op' = caller
    /\ IF receive_handle = None
       THEN StopEarly(caller, pre, "Receiver was not started.")
       ELSE IF thread_killer = None
       THEN StopEarly(caller, pre, "No thread sender found. This is a major bug.")
       ELSE StopSignalAndTake(pre)

\* MeowFace::stop, up to handle.join()
stop ==
    /\ exists /\ cpc = "idle"
    /\ StopBody("stop", <<>>)
    /\ UNCHANGED <<exists, ip_address, thread_killer, receiver, data, workers, dataq,
                   wlog, sent, polled, puppet>>
    /\ UNCHANGED nonReceiver

\* MeowFace::stop from handle.join() on: returns once the worker has terminated
StopJoin ==
    /\ cpc = "joining"
    /\ workers[joinee] = "done"
    /\ cpc' = "idle"
    /\ joinee' = None
    /\ ret' = IF op = "stop" THEN "OK" ELSE "()"
    /\ UNCHANGED <<exists, ip_address, receive_handle, thread_killer, receiver, data,
                   workers, dataq, cancelq, op, clog, wlog, sent, polled, puppet>>
    /\ UNCHANGED nonReceiver

DisconnectedMsg ==
    Msg("error", "Receiver was disconnected somehow, shutting down MeowFace")

\* What poll() does on each result of try_recv when it takes no frame.
PollPanic ==
    /\ op' = "poll" /\ ret' = "panic" /\ clog' = <<>>
    /\ UNCHANGED <<receive_handle, cancelq, cpc, joinee, polled, dataq>>

PollEmpty ==
    /\ op' = "poll" /\ ret' = "()" /\ clog' = <<>>
    /\ UNCHANGED <<receive_handle, cancelq, cpc, joinee, polled, dataq>>

PollDisconnected ==
    /\ StopBody("poll", <<DisconnectedMsg>>)
    /\ UNCHANGED <<polled, dataq>>

PollRest ==
    /\ UNCHANGED <<exists, ip_address, thread_killer, receiver, data, workers,
                   wlog, sent, puppet>>
    /\ UNCHANGED nonReceiver

\* poll() that loops on try_recv until the channel is empty
PollDrain ==
    /\ exists /\ cpc = "idle"
    /\ IF receiver = None THEN PollPanic
       ELSE IF dataq[receiver] # <<>>
       THEN /\ op' = "poll" /\ ret' = "()" /\ clog' = <<>>
            /\ polled' = polled \o dataq[receiver]
            /\ dataq' = [dataq EXCEPT ![receiver] = <<>>]
            /\ UNCHANGED <<receive_handle, cancelq, cpc, joinee>>
       ELSE IF DataSenderAlive(receiver) THEN PollEmpty
       ELSE PollDisconnected
    /\ PollRest

\* poll() that empties the channel and keeps only the newest frame
PollLatest ==
    /\ exists /\ cpc = "idle"
    /\ IF receiver = None THEN PollPanic
       ELSE IF dataq[receiver] # <<>>
       THEN /\ op' = "poll" /\ ret' = "()" /\ clog' = <<>>
            /\ polled' = Append(polled, dataq[receiver][Len(dataq[receiver])])
            /\ dataq' = [dataq EXCEPT ![receiver] = <<>>]
            /\ UNCHANGED <<receive_handle, cancelq, cpc, joinee>>
       ELSE IF DataSenderAlive(receiver) THEN PollEmpty
       ELSE PollDisconnected
    /\ PollRest

\* poll() that takes Disconnected for Empty
PollIgnoringDisconnect ==
    /\ exists /\ cpc = "idle"
    /\ IF receiver = None THEN PollPanic
       ELSE IF dataq[receiver] # <<>>
       THEN /\ op' = "poll" /\ ret' = "()" /\ clog' = <<>>
            /\ polled' = Append(polled, Head(dataq[receiver]))
            /\ dataq' = [dataq EXCEPT ![receiver] = Tail(@)]
            /\ UNCHANGED <<receive_handle, cancelq, cpc, joinee>>
       ELSE PollEmpty
    /\ PollRest

\* MeowFace::poll: receiver.unwrap() panics on None; try_recv gives the oldest
\* pending frame, else Empty while the worker holds the Sender, else Disconnected.
\* The frame taken is printed (kept in `polled`); self.data is not assigned.
poll ==
    /\ exists /\ cpc = "idle"
    /\ IF receiver = None THEN PollPanic
       ELSE IF dataq[receiver] # <<>>
       THEN /\ op' = "poll" /\ ret' = "()" /\ clog' = <<>>
            /\ polled' = Append(polled, Head(dataq[receiver]))
            /\ dataq' = [dataq EXCEPT ![receiver] = Tail(@)]
            /\ UNCHANGED <<receive_handle, cancelq, cpc, joinee>>
       ELSE IF DataSenderAlive(receiver) THEN PollEmpty
       ELSE PollDisconnected
    /\ PollRest

\* Puppet3d::visit_meow_face
visit_meow_face(d) ==
    [bone_pose_position |-> d.head_position,
     bone_pose_rotation |-> QuaternionFromEuler(d.head_rotation)]

\* MeowFace::handle_puppet3d
handle_puppet3d ==
    /\ exists /\ cpc = "idle"
    /\ puppet' = visit_meow_face(data)
    /\ op' = "handle_puppet3d" /\ ret' = "()" /\ clog' = <<>>
    /\ UNCHANGED <<exists, ip_address, receive_handle, thread_killer, receiver, data,
                   workers, dataq, cancelq, cpc, joinee, wlog, sent, polled>>
    /\ UNCHANGED nonReceiver

(***************************************************************************)
(* The worker thread spawned by start(), one loop iteration in three steps *)
(***************************************************************************)
WorkerUnchanged ==
    /\ UNCHANGED <<exists, ip_address, receive_handle, thread_killer, receiver, data,
                   cpc, joinee, op, ret, clog, polled, puppet>>
    /\ UNCHANGED nonReceiver

\* Top of the loop: buf.clear(); thread_receiver.try_recv(). Ok(()) breaks out of
\* the loop and the closure returns, dropping the socket and both channel ends;
\* Empty and Disconnected both fall through to the send.
WorkerCheckCancel(g) ==
    /\ workers[g] = "top"
    /\ IF cancelq[g] > 0
       THEN /\ cancelq' = [cancelq EXCEPT ![g] = @ - 1]
            /\ workers' = [workers EXCEPT ![g] = "done"]
       ELSE /\ cancelq' = cancelq
            /\ workers' = [workers EXCEPT ![g] = "send"]
    /\ wlog' = Msg("none", "")
    /\ UNCHANGED <<dataq, sent>>
    /\ WorkerUnchanged

\* socket.send(SEND_DATA): the request packet, logged either way
WorkerSendRequest(g, ok) ==
    /\ workers[g] = "send"
    /\ workers' = [workers EXCEPT ![g] = "recv"]
    /\ wlog' = IF ok THEN Msg("debug", "sent data")
               ELSE Msg("error", "Unable to send message on socket")
    /\ UNCHANGED <<dataq, cancelq, sent>>
    /\ WorkerUnchanged

\* What one socket.recv() and the decoding of what it read can come to.  Every
\* arm of the two matches is taken as possible, whatever the bytes were.
RecvOutcomes ==
    { [kind |-> "frame", doc |-> d] : d \in InDataSet }
    \cup { [kind |-> k, doc |-> <<>>] : k \in {"bad_json", "timeout", "io_error"} }

\* socket.recv(&mut buf), serde_json::from_slice, thread_sender.send: back to the
\* top of the loop in every case. The send fails only when self.receiver no
\* longer holds the other end.
WorkerRecv(g, o) ==
    /\ workers[g] = "recv"
    /\ workers' = [workers EXCEPT ![g] = "top"]
    /\ IF o.kind = "frame"
       THEN /\ Len(dataq[g]) < MaxQueue /\ Len(sent) < MaxSent
            /\ IF DataReceiverAlive(g)
               THEN /\ dataq' = [dataq EXCEPT ![g] = Append(@, DataFrom(o.doc))]
                    /\ sent' = Append(sent, DataFrom(o.doc))
                    /\ wlog' = Msg("none", "")
               ELSE /\ wlog' = Msg("error", "Error while sending data back to godot")
                    /\ UNCHANGED <<dataq, sent>>
       ELSE /\ wlog' = IF o.kind = "bad_json"
                       THEN Msg("error", "Error while receiving data")
                       ELSE Msg("error", "Unexpected error while receiving")
            /\ UNCHANGED <<dataq, sent>>
    /\ UNCHANGED cancelq
    /\ WorkerUnchanged

Next ==
    \/ InitObject
    \/ \E config \in Configs : create(config)
    \/ \E env \in StartEnvs : start(env)
    \/ stop
    \/ StopJoin
    \/ poll
    \/ handle_puppet3d
    \/ \E g \in Gens : WorkerCheckCancel(g)
    \/ \E g \in Gens, ok \in BOOLEAN : WorkerSendRequest(g, ok)
    \/ \E g \in Gens, o \in RecvOutcomes : WorkerRecv(g, o)

Spec == Init /\ [][Next]_vars

\* The scheduler runs every live worker thread, each socket call returns (recv
\* within the read timeout), and a join returns once its thread has terminated.
Worker(g) ==
    \/ WorkerCheckCancel(g)
    \/ \E ok \in BOOLEAN : WorkerSendRequest(g, ok)
    \/ \E o \in RecvOutcomes : WorkerRecv(g, o)

FairSpec ==
    /\ Spec
    /\ \A g \in Gens : WF_vars(Worker(g))
    /\ WF_vars(StopJoin)

(***************************************************************************)
(* The worker's receive with its buffer                                    *)
(***************************************************************************)
\* buf.len() at socket.recv(&mut buf): Vec::with_capacity(1024) holds no
\* element and buf.clear() keeps it so; the capacity is not the length
RecvBufLen == 0

\* What arrives at the socket during one recv: a datagram of `len` bytes holding
\* the JSON text of `doc` (well formed or not), nothing within the read timeout,
\* or an error of the socket.
Datagrams ==
    { [kind |-> "datagram", doc |-> d, well_formed |-> TRUE, len |-> 300] : d \in InDataSet }
    \cup { [kind |-> "datagram", doc |-> <<>>, well_formed |-> FALSE, len |-> 12],
           [kind |-> "timeout", doc |-> <<>>, well_formed |-> FALSE, len |-> 0],
           [kind |-> "io_error", doc |-> <<>>, well_formed |-> FALSE, len |-> 0] }

\* socket.recv(buf): Ok(n), the datagram's first n = min(len, buf.len()) bytes
\* being copied and the rest discarded
RecvCount(d) == IF d.len < RecvBufLen THEN d.len ELSE RecvBufLen

\* serde_json::from_slice::<InData> on the bytes read: a document only when the
\* whole of a well-formed text was read
FromSliceInData(d) ==
    IF d.well_formed /\ RecvCount(d) = d.len THEN [kind |-> "frame", doc |-> d.doc]
    ELSE [kind |-> "bad_json", doc |-> <<>>]

\* the match arm one receive comes to
RecvOutcome(d) ==
    IF d.kind = "datagram" THEN FromSliceInData(d) ELSE [kind |-> d.kind, doc |-> <<>>]

\* socket.recv(&mut buf) on what arrived, and the rest of the iteration
WorkerRecvDatagram(g, d) ==
    /\ workers[g] = "recv"
    /\ WorkerRecv(g, RecvOutcome(d))

WireNext ==
    \/ InitObject
    \/ \E config \in Configs : create(config)
    \/ \E env \in StartEnvs : start(env)
    \/ stop
    \/ StopJoin
    \/ poll
    \/ handle_puppet3d
    \/ \E g \in Gens : WorkerCheckCancel(g)
    \/ \E g \in Gens, ok \in BOOLEAN : WorkerSendRequest(g, ok)
    \/ \E g \in Gens, d \in Datagrams : WorkerRecvDatagram(g, d)

SpecWire == Init /\ [][WireNext]_vars

(***************************************************************************)
(* Receiver lifecycle properties                                           *)
(***************************************************************************)
NeverStarted == \A g \in Gens : workers[g] = "unborn"
Running == receive_handle # None /\ Alive(receive_handle)
Last(q) == q[Len(q)]
IsPrefix(p, q) == Len(p) <= Len(q) /\ \A i \in 1..Len(p) : p[i] = q[i]

\* C1: stop() on a receiver that was never started returns ERR_UNAVAILABLE in that
\* same step (it does not enter the join), and leaves the join handle, the
\* cancellation sender, the data receiver and every thread and channel as they were.
C1_StopBeforeStart ==
    [][(stop /\ NeverStarted) =>
         /\ ret' = "ERR_UNAVAILABLE"
         /\ cpc' = "idle"
         /\ UNCHANGED <<receive_handle, thread_killer, receiver>>
         /\ UNCHANGED <<workers, dataq, cancelq, joinee>>]_vars

C1_Witness ==
    /\ exists /\ NeverStarted
    /\ op = "stop" /\ ret = "ERR_UNAVAILABLE" /\ cpc = "idle"
    /\ receive_handle = None /\ thread_killer = None /\ receiver = None

\* C2: whatever calls were made, at most one worker thread is alive and at most
\* one socket is open, and a live worker is the one the receiver can still stop:
\* the receiver holds its cancellation sender, and its join handle is the one the
\* receiver holds or the one a stop() in progress is joining.
C2_NoLeak ==
    /\ Cardinality({g \in Gens : Alive(g)}) <= 1
    /\ Cardinality({g \in Gens : SocketOpen(g)}) <= 1
    /\ \A g \in Gens : Alive(g) =>
          /\ thread_killer = g
          /\ receive_handle = g \/ (cpc = "joining" /\ joinee = g)

\* a second start() was refused because the running worker's socket holds the port
C2_Witness ==
    /\ op = "start" /\ ret = "ERR_CANT_CONNECT"
    /\ clog = <<Msg("info", "Starting MeowFace!"),
                Msg("error", "Unable to bind socket: AddrInUse")>>
    /\ Running /\ thread_killer = receive_handle

\* C3: a poll() on a Running receiver returns in that step; of the n frames
\* pending it leaves max(n-1, 0), and with n = 0 it changes nothing of the receiver.
C3_PollTakesAtMostOne ==
    [][(poll /\ Running) =>
         LET n == Len(dataq[receiver])
         IN /\ cpc' = "idle" /\ ret' = "()"
            /\ Len(dataq'[receiver]) = IF n > 0 THEN n - 1 ELSE 0
            /\ n = 0 => UNCHANGED <<receive_handle, thread_killer, receiver, data,
                                    workers, dataq, cancelq, polled, puppet>>]_vars

\* a poll() has taken one frame and left another pending
C3_Witness ==
    /\ op = "poll" /\ ret = "()" /\ Running
    /\ Len(polled) = 1 /\ Len(dataq[receiver]) = 1 /\ Len(sent) = 2

\* C4: a frame poll() took is the receiver's current tracking data, and a
\* handle_puppet3d after it has written that frame's head position and rotation.
C4_PolledFrameApplied ==
    polled # <<>> =>
        /\ data = Last(polled)
        /\ op = "handle_puppet3d" => puppet = visit_meow_face(Last(polled))

\* C5: poll() on a disconnected, empty channel logs the error and performs
\* stop(): with nothing to join, stop() logs that the receiver was not started and
\* poll() returns; with a handle to join, the handle is taken and joined.
C5_PollDisconnected ==
    [][(poll /\ receiver # None /\ dataq[receiver] = <<>> /\ ~DataSenderAlive(receiver)) =>
         /\ ret' # "panic"
         /\ Len(clog') >= 1 /\ clog'[1] = DisconnectedMsg
         /\ IF receive_handle = None
            THEN /\ clog' = <<DisconnectedMsg, Msg("error", "Receiver was not started.")>>
                 /\ cpc' = "idle" /\ ret' = "()"
                 /\ UNCHANGED <<receive_handle, thread_killer, receiver, workers>>
            ELSE /\ receive_handle' = None /\ cpc' = "joining"]_vars

\* poll() found the channel disconnected after stop() had joined the worker
C5_Witness ==
    /\ op = "poll" /\ ret = "()" /\ cpc = "idle"
    /\ clog = <<DisconnectedMsg, Msg("error", "Receiver was not started.")>>
    /\ receiver # None /\ workers[receiver] = "done" /\ receive_handle = None

\* C6: a stop() that has begun to join returns OK; while it joins, the signal is
\* pending or the worker has gone; a worker that is at the top of its loop with
\* the signal pending leaves the loop there; and once stop() has returned OK no
\* worker runs and no socket is open.
C6_StopTerminates ==
    /\ (op = "stop" /\ cpc = "joining") ~> (op = "stop" /\ cpc = "idle" /\ ret = "OK")
    /\ [](cpc = "joining" => (cancelq[joinee] > 0 \/ workers[joinee] = "done"))
    /\ [][\A g \in Gens :
            (workers[g] = "top" /\ cancelq[g] > 0 /\ workers'[g] # "top")
                => workers'[g] = "done"]_vars
    /\ []((op = "stop" /\ ret = "OK") => \A g \in Gens : ~Alive(g) /\ ~SocketOpen(g))

\* stop() returned OK for a worker that had forwarded frames
C6_Witness ==
    /\ op = "stop" /\ ret = "OK" /\ cpc = "idle"
    /\ \E g \in Gens : workers[g] = "done"
    /\ sent # <<>>

\* C7: the frames poll() has returned are, in order, the first frames the worker
\* put on the data channel.
C7_FramesInOrder == IsPrefix(polled, sent)

\* two different frames were returned, the worker's second send coming after the
\* first poll()
C7_Witness ==
    /\ Len(polled) = 2 /\ polled[1] # polled[2]
    /\ polled = sent

\* An IPv4 endpoint, said without the parser: both entries are strings, the
\* address is four decimal numbers 0..255 without leading zeros joined by dots,
\* the port a decimal number 0..65535.
AllDigits(t) == Len(t) >= 1 /\ \A i \in 1..Len(t) : IsDigit(t[i])
ValidOctetText(t) ==
    /\ AllDigits(t) /\ Len(t) <= 3
    /\ Len(t) > 1 => t[1] # "0"
    /\ NumValue(t, 1, Len(t) + 1) <= 255
ValidPortText(t) == AllDigits(t) /\ NumValue(t, 1, Len(t) + 1) <= 65535
ValidAddressText(s) ==
    \E a, b, c \in 1..Len(s) :
        /\ a < b /\ b < c
        /\ s[a] = "." /\ s[b] = "." /\ s[c] = "."
        /\ ValidOctetText(SubSeq(s, 1, a - 1))
        /\ ValidOctetText(SubSeq(s, a + 1, b - 1))
        /\ ValidOctetText(SubSeq(s, b + 1, c - 1))
        /\ ValidOctetText(SubSeq(s, c + 1, Len(s)))
ValidEndpoint(config) ==
    /\ config.address.type = "String" /\ config.port.type = "String"
    /\ ValidAddressText(config.address.value)
    /\ ValidPortText(config.port.value)

\* C8: create(config) returns a receiver only for a config whose address and port
\* form a valid IPv4 endpoint and None for every other config; it starts no
\* thread and makes no channel, and a returned receiver holds no join handle, no
\* cancellation sender and no data receiver.
C8_CreateValidates ==
    [][\A config \in Configs : create(config) =>
         /\ exists' <=> ret' = "Some"
         /\ ret' = "Some" => ValidEndpoint(config)
         /\ ~ValidEndpoint(config) => ret' = "None"
         /\ UNCHANGED <<workers, dataq, cancelq>> /\ NeverStarted'
         /\ receive_handle' = None /\ thread_killer' = None /\ receiver' = None]_vars

\* create() returned a receiver for 127.0.0.1:21412
C8_Witness ==
    /\ op = "create" /\ ret = "Some" /\ exists
    /\ ip_address = [some |-> TRUE, ip |-> <<127, 0, 0, 1>>, port |-> 21412]
    /\ receive_handle = None /\ thread_killer = None /\ receiver = None

(***************************************************************************)
(* The iFacialMocap text decoders                                          *)
(*                                                                         *)
(* A byte buffer is the sequence of its characters; BadByte is a byte that *)
(* makes the buffer invalid UTF-8.  An f32 is kept as an exact fraction    *)
(* (num/den in lowest terms), as an infinity (num = 1 or -1, den = 0) or   *)
(* as NaN; the sign of zero is not kept.                                   *)
(***************************************************************************)
BadByte == "<FF>"

RECURSIVE GCD(_, _)
GCD(a, b) == IF b = 0 THEN a ELSE GCD(b, a % b)
Abs(n) == IF n < 0 THEN -n ELSE n

Fin(n, d) ==
    LET g == GCD(Abs(n), Abs(d))
        sg == IF d < 0 THEN -1 ELSE 1
    IN [kind |-> "fin", num |-> sg * (n \div g), den |-> sg * (d \div g)]
Inf(sign) == [kind |-> "inf", num |-> sign, den |-> 0]
NaN == [kind |-> "nan", num |-> 0, den |-> 0]
F32Zero == Fin(0, 1)

\* f32 division
F32Div(a, b) ==
    IF a.kind = "nan" \/ b.kind = "nan" THEN NaN
    ELSE IF a.kind = "inf" THEN (IF b.kind = "inf" THEN NaN
                                 ELSE Inf(IF b.num < 0 THEN -a.num ELSE a.num))
    ELSE IF b.kind = "inf" THEN F32Zero
    ELSE IF b.num = 0 THEN (IF a.num = 0 THEN NaN ELSE Inf(IF a.num < 0 THEN -1 ELSE 1))
    ELSE Fin(a.num * b.den, a.den * b.num)

RECURSIVE Pow10(_)
Pow10(k) == IF k = 0 THEN 1 ELSE 10 * Pow10(k - 1)

\* str::to_lowercase on the ASCII letters
UpperChars == <<"A","B","C","D","E","F","G","H","I","J","K","L","M",
                "N","O","P","Q","R","S","T","U","V","W","X","Y","Z">>
LowerChars == <<"a","b","c","d","e","f","g","h","i","j","k","l","m",
                "n","o","p","q","r","s","t","u","v","w","x","y","z">>
LowerChar(c) ==
    IF \E i \in 1..26 : UpperChars[i] = c
    THEN LowerChars[CHOOSE i \in 1..26 : UpperChars[i] = c]
    ELSE c
ToLowercase(s) == [i \in 1..Len(s) |-> LowerChar(s[i])]

\* the index of the first occurrence of pat in s at or after i, or 0
RECURSIVE Find(_, _, _)
Find(s, pat, i) ==
    IF i + Len(pat) - 1 > Len(s) THEN 0
    ELSE IF SubSeq(s, i, i + Len(pat) - 1) = pat THEN i
    ELSE Find(s, pat, i + 1)

\* str::replace: every non-overlapping occurrence, left to right
RECURSIVE Replace(_, _, _)
Replace(s, pat, to) ==
    LET i == Find(s, pat, 1)
    IN IF i = 0 THEN s
       ELSE SubSeq(s, 1, i - 1) \o to
            \o Replace(SubSeq(s, i + Len(pat), Len(s)), pat, to)

\* str::split_once
SplitOnce(s, pat) ==
    LET i == Find(s, pat, 1)
    IN IF i = 0 THEN [some |-> FALSE, k |-> <<>>, v |-> <<>>]
       ELSE [some |-> TRUE, k |-> SubSeq(s, 1, i - 1),
             v |-> SubSeq(s, i + Len(pat), Len(s))]

\* str::split: one piece more than there are separators
RECURSIVE Split(_, _)
Split(s, pat) ==
    LET i == Find(s, pat, 1)
    IN IF i = 0 THEN <<s>>
       ELSE <<SubSeq(s, 1, i - 1)>> \o Split(SubSeq(s, i + Len(pat), Len(s)), pat)

\* str::splitn(n, pat): at most n pieces, the last one holding the rest
RECURSIVE SplitN(_, _, _)
SplitN(n, s, pat) ==
    LET i == Find(s, pat, 1)
    IN IF n = 0 THEN <<>>
       ELSE IF n = 1 \/ i = 0 THEN <<s>>
       ELSE <<SubSeq(s, 1, i - 1)>> \o SplitN(n - 1, SubSeq(s, i + Len(pat), Len(s)), pat)

\* str::parse::<f32> on the texts of this model: an optional sign, then nan, inf
\* or infinity in any case, or digits with at most one '.' and at least one digit
\* (exponents do not occur in the inputs).
ParseF32(t) ==
    LET signed == Len(t) >= 1 /\ t[1] \in {"+", "-"}
        sign == IF Len(t) >= 1 /\ t[1] = "-" THEN -1 ELSE 1
        body == IF signed THEN SubSeq(t, 2, Len(t)) ELSE t
        low == ToLowercase(body)
        dot == Find(body, <<".">>, 1)
        ip == IF dot = 0 THEN body ELSE SubSeq(body, 1, dot - 1)
        fp == IF dot = 0 THEN <<>> ELSE SubSeq(body, dot + 1, Len(body))
        digitsOnly(x) == \A i \in 1..Len(x) : IsDigit(x[i])
    IN IF low = <<"n","a","n">> THEN [ok |-> TRUE, val |-> NaN]
       ELSE IF low = <<"i","n","f">> \/ low = <<"i","n","f","i","n","i","t","y">>
       THEN [ok |-> TRUE, val |-> Inf(sign)]
       ELSE IF digitsOnly(ip) /\ digitsOnly(fp) /\ Len(ip) + Len(fp) >= 1
       THEN [ok |-> TRUE,
             val |-> Fin(sign * (NumValue(ip, 1, Len(ip) + 1) * Pow10(Len(fp))
                                 + NumValue(fp, 1, Len(fp) + 1)),
                         Pow10(Len(fp)))]
       ELSE [ok |-> FALSE, val |-> F32Zero]

I16Min == -32768
I16Max == 32767

\* str::parse::<i16>: an optional sign, at least one digit, within range
ParseI16(t) ==
    LET signed == Len(t) >= 1 /\ t[1] \in {"+", "-"}
        sign == IF Len(t) >= 1 /\ t[1] = "-" THEN -1 ELSE 1
        body == IF signed THEN SubSeq(t, 2, Len(t)) ELSE t
        n == sign * NumValue(body, 1, Len(body) + 1)
    IN IF Len(body) >= 1 /\ (\A i \in 1..Len(body) : IsDigit(body[i]))
          /\ n >= I16Min /\ n <= I16Max
       THEN [ok |-> TRUE, val |-> n]
       ELSE [ok |-> FALSE, val |-> 0]

\* vals.get(i).map(|v| v.parse::<f32>().unwrap_or_default()).unwrap_or_default(),
\* i counted from 0 as in the source
GetF32(vals, i) ==
    IF i + 1 <= Len(vals) THEN ParseF32(vals[i + 1]).val ELSE F32Zero

\* map.insert(key, value)
Insert(m, key, value) ==
    [k \in DOMAIN m \cup {key} |-> IF k = key THEN value ELSE m[k]]

V3(a, b, c) == <<a, b, c>>
V3Zero == V3(F32Zero, F32Zero, F32Zero)
Text_head == <<"=", "h", "e", "a", "d">>
Text_rightEye == <<"r", "i", "g", "h", "t", "E", "y", "e">>
Text_leftEye == <<"l", "e", "f", "t", "E", "y", "e">>
Text_left == <<"l", "e", "f", "t">>
Text_right == <<"r", "i", "g", "h", "t">>

\* Vector3::new(vals.get(i), vals.get(i + 1), vals.get(i + 2))
GetV3(vals, i) == V3(GetF32(vals, i), GetF32(vals, i + 1), GetF32(vals, i + 2))

\* k.replace("_L", "left").replace("_R", "right")
ReplaceSides(k) == Replace(Replace(k, <<"_", "L">>, Text_left), <<"_", "R">>, Text_right)

\* a split of the =head values into at most 4 pieces
HeadValsOfFour(v) == SplitN(4, v, <<",">>)

\* let vals = v.splitn(5, ',') of the =head arm
HeadVals(v) == SplitN(5, v, <<",">>)
\* let vals = v.splitn(2, ',') of the rightEye and leftEye arms
EyeVals(v) == SplitN(2, v, <<",">>)

\* DataParser::ifacial_mocap: one pass of the while-let loop over a token
DataParserToken(r, tok) ==
    LET h == SplitOnce(tok, <<"#">>)
        b == SplitOnce(tok, <<"-">>)
    IN IF h.some
       THEN IF h.k = Text_head
            THEN [r EXCEPT !.rotation = Some(GetV3(HeadVals(h.v), 0)),
                           !.position = Some(GetV3(HeadVals(h.v), 3))]
            ELSE IF h.k = Text_rightEye
            THEN [r EXCEPT !.right_eye = Some(GetV3(EyeVals(h.v), 0))]
            ELSE IF h.k = Text_leftEye
            THEN [r EXCEPT !.left_eye = Some(GetV3(EyeVals(h.v), 0))]
            ELSE [r EXCEPT !.errors = Append(@, "Unhandled ifm data key")]
       ELSE IF b.some
       THEN [r EXCEPT !.blend_shapes =
                Insert(@, ToLowercase(ReplaceSides(b.k)),
                       F32Div(Fin(ParseI16(b.v).val, 1), Fin(100, 1)))]
       ELSE IF tok = <<>> THEN r
       ELSE [r EXCEPT !.errors = Append(@, "Unhandled ifm key-value pair")]

RECURSIVE DataParserTokens(_, _)
DataParserTokens(r, toks) ==
    IF toks = <<>> THEN r
    ELSE DataParserTokens(DataParserToken(r, Head(toks)), Tail(toks))

FromUtf8Ok(bytes) == \A i \in 1..Len(bytes) : bytes[i] # BadByte

\* DataParser::ifacial_mocap
DataParser_ifacial_mocap(bytes) ==
    IF FromUtf8Ok(bytes)
    THEN DataParserTokens(DictionaryNew, Split(bytes, <<"|">>))
    ELSE [DictionaryNew EXCEPT !.errors = <<"Utf8Error">>]

\* IFacialMocapData::default(): zero vectors, no blend shapes
IFacialMocapDataDefault ==
    [rotation |-> V3Zero, position |-> V3Zero, right_eye |-> V3Zero,
     left_eye |-> V3Zero, blend_shapes |-> <<>>, errors |-> <<>>]

\* IFacialMocapData::from: one pass of the while-let loop over a token
IFacialMocapDataToken(r, tok) ==
    LET h == SplitOnce(tok, <<"#">>)
        b == SplitOnce(tok, <<"-">>)
    IN IF h.some
       THEN IF h.k = Text_head
            THEN [r EXCEPT !.rotation = GetV3(HeadVals(h.v), 0),
                           !.position = GetV3(HeadVals(h.v), 3)]
            ELSE IF h.k = Text_rightEye
            THEN [r EXCEPT !.right_eye = GetV3(EyeVals(h.v), 0)]
            ELSE IF h.k = Text_leftEye
            THEN [r EXCEPT !.left_eye = GetV3(EyeVals(h.v), 0)]
            ELSE [r EXCEPT !.errors = Append(@, "Unhandled ifm data key")]
       ELSE IF b.some
       THEN [r EXCEPT !.blend_shapes =
                Insert(@, ReplaceSides(b.k),
                       F32Div(Fin(100, 1), ParseF32(b.v).val))]
       ELSE IF tok = <<>> THEN r
       ELSE [r EXCEPT !.errors = Append(@, "Unhandled ifm key-value pair")]

RECURSIVE IFacialMocapDataTokens(_, _)
IFacialMocapDataTokens(r, toks) ==
    IF toks = <<>> THEN r
    ELSE IFacialMocapDataTokens(IFacialMocapDataToken(r, Head(toks)), Tail(toks))

\* IFacialMocapData::from
IFacialMocapData_from(bytes) ==
    IF FromUtf8Ok(bytes)
    THEN IFacialMocapDataTokens(IFacialMocapDataDefault, Split(bytes, <<"|">>))
    ELSE [IFacialMocapDataDefault EXCEPT !.errors = <<"Utf8Error">>]

(***************************************************************************)
(* The decoders applied to the buffers of a bounded set                    *)
(***************************************************************************)
\* tokens in one buffer
MaxTokens == 2

TokenTexts ==
    {
      <<"=", "h", "e", "a", "d", "#", "1", ".", "0", ",", "0", ".", "0", ",", "0", ".", "0", ",", "0", ".", "5", ",", "0", ".", "0", ",", "0", ".", "0">>,
      <<"=", "h", "e", "a", "d", "#", "1", ",", "2", ",", "3", ",", "4", ",", "5", ",", "6">>,
      <<"=", "h", "e", "a", "d", "#", "7", ",", "8">>,
      <<"=", "h", "e", "a", "d", "#", "1", ",", "x", ",", "3", ",", "4">>,
      <<"r", "i", "g", "h", "t", "E", "y", "e", "#", "1", ",", "2", ",", "3">>,
      <<"l", "e", "f", "t", "E", "y", "e", "#", "4", ",", "5", ",", "6">>,
      <<"l", "e", "f", "t", "E", "y", "e", "#", ".", "5">>,
      <<"S", "m", "i", "l", "e", "-", "5", "0">>,
      <<"e", "y", "e", "B", "l", "i", "n", "k", "_", "L", "-", "7">>,
      <<"j", "a", "w", "_", "R", "-", "-", "5">>,
      <<"S", "m", "i", "l", "e", "-", "x">>,
      <<"b", "r", "o", "w", "-", "4", "0", "0", "0", "0">>,
      <<>>,
      <<"j", "u", "n", "k">>,
      <<"f", "o", "o", "#", "1">>,
      <<BadByte>>,
      <<"=", "h", "e", "a", "d", "#", "N", "a", "N", ",", "1", ",", "2">>,
      <<"S", "m", "i", "l", "e", "-", "n", "a", "n">>,
      <<"=", "h", "e", "a", "d", "#", "1", ",", "2", ",", "3", ",", "4", ",", "5">> }

RECURSIVE JoinTokens(_)
JoinTokens(toks) ==
    IF Len(toks) = 1 THEN toks[1]
    ELSE toks[1] \o <<"|">> \o JoinTokens(Tail(toks))

Inputs ==
    {<<>>} \cup UNION { {JoinTokens(ts) : ts \in [1..n -> TokenTexts]} : n \in 1..MaxTokens }

DInit ==
    /\ input \in Inputs
    /\ dpc = [on |-> TRUE, dp |-> FALSE, td |-> FALSE]
    /\ out_dp = DictionaryNew
    /\ out_td = IFacialMocapDataDefault

\* a call of DataParser.ifacial_mocap(input)
CallDataParser ==
    /\ dpc.on /\ ~dpc.dp
    /\ out_dp' = DataParser_ifacial_mocap(input)
    /\ dpc' = [dpc EXCEPT !.dp = TRUE]
    /\ UNCHANGED <<input, out_td>>
    /\ UNCHANGED nonDecoder

\* a call of IFacialMocapData.from(input)
CallIFacialMocapData ==
    /\ dpc.on /\ ~dpc.td
    /\ out_td' = IFacialMocapData_from(input)
    /\ dpc' = [dpc EXCEPT !.td = TRUE]
    /\ UNCHANGED <<input, out_dp>>
    /\ UNCHANGED nonDecoder

DecodeInit == RInit /\ DInit /\ JIdle /\ PInit /\ CIdle /\ LIdle

DecodeNext == CallDataParser \/ CallIFacialMocapData

SpecDecode == DecodeInit /\ [][DecodeNext]_vars

(***************************************************************************)
(* The VTubeStudio JSON decoders                                           *)
(*                                                                         *)
(* A byte buffer is kept as the JSON text it holds: text that is no JSON   *)
(* object, or an object with, per key, the kind of value it gives.  Keys   *)
(* are case sensitive; keys the struct does not name are ignored.          *)
(***************************************************************************)
JMissing == [t |-> "missing", v |-> <<>>]
JNull == [t |-> "null", v |-> <<>>]
JString == [t |-> "string", v |-> <<>>]
\* {"x": .., "y": .., "z": ..}
JVec(v) == [t |-> "vec", v |-> v]
\* [{"k": .., "v": ..}, ..]
JList(l) == [t |-> "list", v |-> l]

Text_Blink_L == <<"B", "l", "i", "n", "k", "_", "L">>
Text_Joy == <<"J", "o", "y">>
Text_fun == <<"f", "u", "n">>

RotationValues ==
    {JMissing, JNull, JString, JVec(V3Zero), JVec(V3(Fin(1, 1), Fin(2, 1), Fin(3, 1)))}
PositionValues == {JMissing, JVec(V3Zero), JVec(V3(Fin(4, 1), Fin(5, 1), Fin(6, 1)))}
EyeValues == {JMissing, JVec(V3(Fin(1, 2), F32Zero, F32Zero))}
BlendShapesValues ==
    {JMissing, JList(<<>>), JList(<<[k |-> Text_Blink_L, v |-> Fin(1, 2)]>>),
     JList(<<[k |-> Text_Joy, v |-> Fin(1, 2)], [k |-> Text_fun, v |-> Fin(1, 5)]>>)}

\* The documents the decoders are called with: objects, and texts that are not
\* JSON (the empty buffer, a truncated object).
JsonObjects ==
    [syntax : {"object"}, Rotation : RotationValues, Position : PositionValues,
     EyeLeft : EyeValues, EyeRight : EyeValues, BlendShapes : BlendShapesValues,
     rotation : {JMissing, JVec(V3(Fin(9, 1), Fin(9, 1), Fin(9, 1)))}]
JsonMalformed ==
    [syntax : {"empty", "truncated"}, Rotation : {JMissing}, Position : {JMissing},
     EyeLeft : {JMissing}, EyeRight : {JMissing}, BlendShapes : {JMissing},
     rotation : {JMissing}]
JsonDocs == JsonObjects \cup JsonMalformed

\* serde's Option<Vector3> field: a missing key and null are None, an object of
\* three numbers is Some, any other value is an error
OptionVector3(jv) ==
    IF jv.t \in {"missing", "null"} THEN [ok |-> TRUE, val |-> Absent]
    ELSE IF jv.t = "vec" THEN [ok |-> TRUE, val |-> Some(jv.v)]
    ELSE [ok |-> FALSE, val |-> Absent]

\* serde's Option<Vec<VtBlendShape>> field
OptionBlendShapes(jv) ==
    IF jv.t \in {"missing", "null"} THEN [ok |-> TRUE, val |-> Absent]
    ELSE IF jv.t = "list" THEN [ok |-> TRUE, val |-> Some(jv.v)]
    ELSE [ok |-> FALSE, val |-> Absent]

\* serde_json::from_slice::<VTubeStudioData>
FromSliceVTubeStudioData(doc) ==
    LET rotation == OptionVector3(doc.Rotation)
        position == OptionVector3(doc.Position)
        eye_left == OptionVector3(doc.EyeLeft)
        eye_right == OptionVector3(doc.EyeRight)
        blend_shapes == OptionBlendShapes(doc.BlendShapes)
    IN IF doc.syntax = "object" /\ rotation.ok /\ position.ok /\ eye_left.ok
          /\ eye_right.ok /\ blend_shapes.ok
       THEN [ok |-> TRUE,
             val |-> [rotation |-> rotation.val, position |-> position.val,
                      eye_left |-> eye_left.val, eye_right |-> eye_right.val,
                      blend_shapes |-> blend_shapes.val, errors |-> <<>>]]
       ELSE [ok |-> FALSE, val |-> VTubeStudioDataDefault]

\* match from_slice { Ok(v) => v, Err(e) => { error!("{e}"); default() } }
DecodedOrDefault(doc) ==
    LET r == FromSliceVTubeStudioData(doc)
    IN IF r.ok THEN r.val
       ELSE [VTubeStudioDataDefault EXCEPT !.errors = <<"serde_json::Error">>]

\* Option::unwrap_or_default
UnwrapOrDefault(o, default) == IF o.some THEN o.v ELSE default

\* VTubeStudioData::from
VTubeStudioData_from(doc) == DecodedOrDefault(doc)

\* DataParser::vtube_studio: every key is inserted, with the value or its default
DataParser_vtube_studio(doc) ==
    LET d == DecodedOrDefault(doc)
        shapes == UnwrapOrDefault(d.blend_shapes, <<>>)
    IN [rotation |-> Some(UnwrapOrDefault(d.rotation, V3Zero)),
        position |-> Some(UnwrapOrDefault(d.position, V3Zero)),
        eye_left |-> Some(UnwrapOrDefault(d.eye_left, V3Zero)),
        eye_right |-> Some(UnwrapOrDefault(d.eye_right, V3Zero)),
        blend_shapes |-> Some([i \in 1..Len(shapes) |->
                                  [k |-> ToLowercase(shapes[i].k), v |-> shapes[i].v]]),
        errors |-> d.errors]

JInit ==
    /\ jdoc \in JsonDocs
    /\ jpc = [on |-> TRUE, dp |-> FALSE, vts |-> FALSE]
    /\ out_vdp = VTubeStudioDataDefault
    /\ out_vts = VTubeStudioDataDefault

\* a call of DataParser.vtube_studio(jdoc)
CallVtubeStudioParser ==
    /\ jpc.on /\ ~jpc.dp
    /\ out_vdp' = DataParser_vtube_studio(jdoc)
    /\ jpc' = [jpc EXCEPT !.dp = TRUE]
    /\ UNCHANGED <<jdoc, out_vts>>
    /\ UNCHANGED nonJson

\* a call of VTubeStudioData.from(jdoc)
CallVTubeStudioData ==
    /\ jpc.on /\ ~jpc.vts
    /\ out_vts' = VTubeStudioData_from(jdoc)
    /\ jpc' = [jpc EXCEPT !.vts = TRUE]
    /\ UNCHANGED <<jdoc, out_vdp>>
    /\ UNCHANGED nonJson

JsonInit == RInit /\ DIdle /\ JInit /\ PInit /\ CIdle /\ LIdle

JsonNext == CallVtubeStudioParser \/ CallVTubeStudioData

SpecJson == JsonInit /\ [][JsonNext]_vars

(***************************************************************************)
(* The puppets: VrmPuppet and GlbPuppet                                    *)
(*                                                                         *)
(* A Transform3D is kept as its origin and the Euler angles of its basis.  *)
(* The IK targets are Node3D objects: the calls a handler queues with      *)
(* call_deferred run in order at the end of the frame and nothing reads    *)
(* the targets in between, so a handler's step applies them.               *)
(***************************************************************************)
F32Neg(a) ==
    IF a.kind = "nan" THEN NaN
    ELSE IF a.kind = "inf" THEN Inf(-a.num)
    ELSE Fin(-a.num, a.den)

F32Add(a, b) ==
    IF a.kind = "nan" \/ b.kind = "nan" THEN NaN
    ELSE IF a.kind = "inf" /\ b.kind = "inf" THEN (IF a.num = b.num THEN a ELSE NaN)
    ELSE IF a.kind = "inf" THEN a
    ELSE IF b.kind = "inf" THEN b
    ELSE Fin(a.num * b.den + b.num * a.den, a.den * b.den)

F32Mul(a, b) ==
    IF a.kind = "nan" \/ b.kind = "nan" THEN NaN
    ELSE IF a.kind = "inf" \/ b.kind = "inf"
    THEN (IF a.num = 0 \/ b.num = 0 THEN NaN
          ELSE Inf(IF (a.num < 0) = (b.num < 0) THEN 1 ELSE -1))
    ELSE Fin(a.num * b.num, a.den * b.den)

V3Add(a, b) == V3(F32Add(a[1], b[1]), F32Add(a[2], b[2]), F32Add(a[3], b[3]))
V3Sub(a, b) == V3Add(a, V3(F32Neg(b[1]), F32Neg(b[2]), F32Neg(b[3])))
V3Scale(a, k) == V3(F32Mul(a[1], k), F32Mul(a[2], k), F32Mul(a[3], k))
\* the literal 0.02
Scale002 == Fin(2, 100)

Text_Fun == <<"F", "u", "n">>
Text_joy == <<"j", "o", "y">>
Text_JOY == <<"J", "O", "Y">>
Text_blink_l == <<"b", "l", "i", "n", "k", "_", "l">>
Text_BLINK_L == <<"B", "L", "I", "N", "K", "_", "L">>
MorphA == <<"A">>
MorphB == <<"B">>

\* An animation track: its path, its type and the number of its keys.
Track(path, type, keys) == [path |-> path, type |-> type, keys |-> keys]
TrackA == Track(<<"F", ":", "A">>, "TYPE_BLEND_SHAPE", 1)
TrackB == Track(<<"F", ":", "B">>, "TYPE_BLEND_SHAPE", 1)
\* An animation of the player: get_animation(name) gives it (ok) or None.
Clip(name, ok, tracks) == [name |-> name, ok |-> ok, tracks |-> tracks]

\* The animation lists of the avatars in this model.
ClipLists ==
    { <<Clip(Text_Blink_L, TRUE, <<TrackA>>)>>,
      <<Clip(Text_Joy, TRUE, <<TrackA>>), Clip(Text_Fun, TRUE, <<TrackA, TrackB>>)>>,
      <<Clip(Text_Blink_L, TRUE, <<TrackA>>), Clip(Text_blink_l, TRUE, <<TrackB>>)>>,
      <<Clip(Text_JOY, TRUE,
             <<Track(<<"F", ":", "A">>, "TYPE_ROTATION_3D", 1),
               Track(<<"F", ":", "A">>, "TYPE_POSITION_3D", 1),
               Track(<<"F", "B">>, "TYPE_BLEND_SHAPE", 1),
               Track(<<"F", ":", "A">>, "TYPE_BLEND_SHAPE", 0),
               TrackB>>)>>,
      <<Clip(Text_Fun, TRUE, <<TrackB>>), Clip(Text_Blink_L, FALSE, <<>>),
        Clip(Text_Joy, TRUE, <<TrackA>>)>> }

\* A bone of the skeleton: its global pose, and the rotation in degrees a Node3D
\* given that pose reports.
Bone(origin, euler, degrees) ==
    [some |-> TRUE, origin |-> origin, euler |-> euler, degrees |-> degrees]
NoBone == [some |-> FALSE, origin |-> <<>>, euler |-> <<>>, degrees |-> <<>>]
HeadBone == Bone(V3(F32Zero, Fin(3, 2), F32Zero), V3(Fin(1, 10), F32Zero, F32Zero),
                 V3(Fin(573, 100), F32Zero, F32Zero))
LeftHandBone == Bone(V3(Fin(1, 2), Fin(1, 1), F32Zero), V3Zero, V3Zero)
RightHandBone == Bone(V3(Fin(-1, 2), Fin(1, 1), F32Zero), V3Zero, V3Zero)

\* The scenes the puppets become ready in.
Scene(skeleton, head, hands, meshes, anim_player, clips) ==
    [skeleton |-> skeleton, Head |-> head,
     LeftHand |-> IF hands THEN LeftHandBone ELSE NoBone,
     RightHand |-> IF hands THEN RightHandBone ELSE NoBone,
     meshes |-> meshes, mesh_id |-> 1, mesh_live |-> TRUE,
     anim_player |-> anim_player, clips |-> clips]
MeshAB == (MorphA :> F32Zero) @@ (MorphB :> F32Zero)
MeshA == (MorphA :> F32Zero)
Scenes ==
    { Scene(TRUE, HeadBone, TRUE, MeshAB, TRUE, cl) : cl \in ClipLists }
    \cup { Scene(TRUE, HeadBone, FALSE, MeshA, TRUE,
                 <<Clip(Text_Joy, TRUE, <<TrackA>>), Clip(Text_Fun, TRUE, <<TrackA, TrackB>>)>>),
           Scene(TRUE, NoBone, TRUE, MeshAB, FALSE, <<>>),
           Scene(FALSE, NoBone, FALSE, <<>>, FALSE, <<>>),
           [Scene(TRUE, HeadBone, TRUE, MeshAB, TRUE, <<Clip(Text_Blink_L, TRUE, <<TrackA>>)>>)
               EXCEPT !.mesh_live = FALSE] }

\* create_armature and the starting transform kept beside it
Armature(bone) ==
    IF bone.some
    THEN [some |-> TRUE, position |-> bone.origin, rotation_degrees |-> bone.degrees]
    ELSE NoTarget
StartingTransform(bone) ==
    IF bone.some THEN [origin |-> bone.origin, euler |-> bone.euler]
    ELSE [origin |-> V3Zero, euler |-> V3Zero]

\* InstanceId::try_from_i64: None for 0
TryFromI64(id) == IF id = 0 THEN Absent ELSE Some(id)
\* Gd::<MeshInstance3D>::try_from_instance_id: None unless the id resolves to a
\* live mesh instance
TryFromInstanceId(id, live) == IF live THEN Some(id) ELSE Absent
\* Option::map
OptionMap(o, mapped) == IF o.some THEN Some(mapped) ELSE Absent

\* the sanity check that skips a blend shape: `if let None = ...` on the mapped
\* option, which is None only when try_from_i64 gave None
InstanceIdInvalid(scene) ==
    ~OptionMap(TryFromI64(scene.mesh_id),
               TryFromInstanceId(scene.mesh_id, scene.mesh_live)).some

\* populate_blend_shape_mappings: one entry per blend shape of the mesh
PopulateBlendShapeMappings(scene) ==
    IF InstanceIdInvalid(scene) THEN <<>>
    ELSE [n \in DOMAIN scene.meshes |->
             [mesh_id |-> scene.mesh_id, blend_shape_path |-> n, value |-> scene.meshes[n]]]

\* the morphs a clip's tracks give: blend-shape tracks whose path has a ':' and
\* that hold a key
RECURSIVE TrackMorphs(_)
TrackMorphs(tracks) ==
    IF tracks = <<>> THEN <<>>
    ELSE LET t == Head(tracks)
             sp == SplitOnce(t.path, <<":">>)
         IN IF t.type \in {"TYPE_ROTATION_3D", "TYPE_BLEND_SHAPE"} /\ sp.some
               /\ t.keys >= 1 /\ t.type = "TYPE_BLEND_SHAPE"
            THEN <<sp.v>> \o TrackMorphs(Tail(tracks))
            ELSE TrackMorphs(Tail(tracks))

\* the key an animation's entry is stored under
StoredKey(name) == ToLowercase(name)

\* populate_and_modify_expression_mappings: returns at the first animation it
\* cannot get
RECURSIVE PopulateExpressionMappings(_, _)
PopulateExpressionMappings(mappings, clips) ==
    IF clips = <<>> THEN mappings
    ELSE IF ~Head(clips).ok THEN mappings
    ELSE PopulateExpressionMappings(
             Insert(mappings, StoredKey(Head(clips).name), TrackMorphs(Head(clips).tracks)),
             Tail(clips))

\* VrmPuppet::ready
VrmReady(scene) ==
    /\ ~vrm.ready
    /\ vrm' = IF ~scene.skeleton
              THEN [vrm EXCEPT !.ready = TRUE]
              ELSE [ready |-> TRUE, skeleton |-> TRUE,
                    ik |-> [some |-> TRUE,
                            head |-> Armature(scene.Head),
                            left_hand |-> Armature(scene.LeftHand),
                            right_hand |-> Armature(scene.RightHand),
                            head_starting_transform |-> StartingTransform(scene.Head),
                            left_hand_starting_transform |-> StartingTransform(scene.LeftHand),
                            right_hand_starting_transform |->
                                StartingTransform(scene.RightHand)],
                    blend_shape_mappings |-> PopulateBlendShapeMappings(scene),
                    expression_mappings |->
                        IF scene.anim_player
                        THEN PopulateExpressionMappings(<<>>, scene.clips)
                        ELSE <<>>]
    /\ avatar' = scene
    /\ weights' = scene.meshes
    /\ pop' = [handler |-> "VrmPuppet::ready", frame |-> <<>>]
    /\ pret' = "()"
    /\ UNCHANGED glb
    /\ UNCHANGED nonPuppet

\* GlbPuppet::ready
GlbReady(scene) ==
    /\ glb.head_bone_id = -1 /\ ~glb.skeleton
    /\ scene.skeleton
    /\ glb' = [glb EXCEPT !.skeleton = TRUE,
                          !.head_bone_id = IF scene.Head.some THEN 0 ELSE -1,
                          !.blend_shape_mappings =
                              IF scene.Head.some
                              THEN [n \in DOMAIN scene.meshes |->
                                       [mesh_id |-> scene.mesh_id, blend_shape_path |-> n,
                                        value |-> scene.meshes[n]]]
                              ELSE <<>>]
    /\ pop' = [handler |-> "GlbPuppet::ready", frame |-> scene]
    /\ pret' = "()"
    /\ UNCHANGED <<vrm, avatar, weights>>
    /\ UNCHANGED nonPuppet

\* a lookup under the name as the frame spells it
LookupKeyExact(name) == name

\* the key a frame's blend-shape name is looked up under
LookupKey(name) == ToLowercase(name)

\* for mapping in mappings: blend_shape_mappings.get(mapping) -> set_indexed
RECURSIVE WriteMorphs(_, _, _)
WriteMorphs(w, morphs, value) ==
    IF morphs = <<>> THEN w
    ELSE WriteMorphs(IF Head(morphs) \in DOMAIN vrm.blend_shape_mappings
                     THEN [w EXCEPT ![vrm.blend_shape_mappings[Head(morphs)].blend_shape_path]
                                       = value]
                     ELSE w,
                     Tail(morphs), value)

\* one blend shape of a frame: expression_mappings.get(&k.to_lowercase())
ApplyShape(w, shape) ==
    IF LookupKey(shape.k) \in DOMAIN vrm.expression_mappings
    THEN WriteMorphs(w, vrm.expression_mappings[LookupKey(shape.k)], shape.v)
    ELSE w

\* par_iter().for_each over the frame's blend shapes: the shapes are applied in
\* an order the scheduler picks
Orders(n) == {p \in [1..n -> 1..n] : \A i, j \in 1..n : p[i] = p[j] => i = j}
RECURSIVE ApplyShapes(_, _, _, _)
ApplyShapes(w, shapes, order, i) ==
    IF i > Len(shapes) THEN w
    ELSE ApplyShapes(ApplyShape(w, shapes[order[i]]), shapes, order, i + 1)

\* a HashMap<String, f32> as the list of its entries in iteration order
RECURSIVE MapEntries(_)
MapEntries(m) ==
    IF DOMAIN m = {} THEN <<>>
    ELSE LET k == CHOOSE x \in DOMAIN m : TRUE
         IN <<[k |-> k, v |-> m[k]]>> \o MapEntries([y \in DOMAIN m \ {k} |-> m[y]])

SetPosition(target, v) == IF target.some THEN [target EXCEPT !.position = v] ELSE target
SetRotationDegrees(target, v) ==
    IF target.some THEN [target EXCEPT !.rotation_degrees = v] ELSE target

\* Gd::from_instance_id(mapping.mesh_id) panics when the id resolves to no live
\* instance: some blend shape of the frame reaches a write while the mesh is gone
WritesFreedMesh(shapes) ==
    /\ ~avatar.mesh_live
    /\ \E i \in 1..Len(shapes) :
          /\ LookupKey(shapes[i].k) \in DOMAIN vrm.expression_mappings
          /\ \E j \in 1..Len(vrm.expression_mappings[LookupKey(shapes[i].k)]) :
                vrm.expression_mappings[LookupKey(shapes[i].k)][j]
                    \in DOMAIN vrm.blend_shape_mappings

\* the par_iter().for_each of a handler and what the call comes to
ApplyBlendShapes(shapes) ==
    IF WritesFreedMesh(shapes)
    THEN weights' = weights /\ pret' = "panic"
    ELSE /\ \E order \in Orders(Len(shapes)) :
               weights' = ApplyShapes(weights, shapes, order, 1)
         /\ pret' = "()"

PuppetPanic(handler, frame) ==
    /\ pop' = [handler |-> handler, frame |-> frame]
    /\ pret' = "panic"
    /\ UNCHANGED <<vrm, glb, avatar, weights>>

\* the body of VrmPuppet::handle_vtube_studio on the frame `decoded`
VrmVTubeStudioBody(handler, frame, decoded) ==
    IF ~vrm.skeleton THEN PuppetPanic(handler, frame)
    ELSE
      LET ik0 == vrm.ik
          ik1 == IF decoded.rotation.some /\ ik0.some
                 THEN [ik0 EXCEPT !.head = SetRotationDegrees(@,
                          V3Sub(V3(decoded.rotation.v[2], decoded.rotation.v[1], decoded.rotation.v[3]),
                                ik0.head_starting_transform.euler))]
                 ELSE ik0
          offset == V3Scale(decoded.position.v, Scale002)
          ik2 == IF decoded.position.some /\ ik1.some
                 THEN [ik1 EXCEPT
                        !.head = SetPosition(@,
                            V3Sub(ik1.head_starting_transform.origin, offset)),
                        !.left_hand = SetPosition(@,
                            V3Sub(ik1.left_hand_starting_transform.origin, offset)),
                        !.right_hand = SetPosition(@,
                            V3Sub(ik1.right_hand_starting_transform.origin, offset))]
                 ELSE ik1
          shapes == IF decoded.blend_shapes.some THEN decoded.blend_shapes.v ELSE <<>>
      IN /\ ApplyBlendShapes(shapes)
         /\ vrm' = [vrm EXCEPT !.ik = ik2]
         /\ pop' = [handler |-> handler, frame |-> frame]
         /\ UNCHANGED <<glb, avatar>>

\* The JSON documents and text buffers the frames given to the puppets are
\* decoded from.
PuppetDocs ==
    [syntax : {"object"},
     Rotation : {JMissing, JVec(V3(Fin(1, 1), Fin(2, 1), Fin(3, 1)))},
     Position : {JMissing, JVec(V3(Fin(4, 1), Fin(5, 1), Fin(6, 1)))},
     EyeLeft : {JMissing}, EyeRight : {JMissing},
     BlendShapes : {JMissing, JList(<<[k |-> Text_Blink_L, v |-> Fin(1, 2)]>>),
                    JList(<<[k |-> Text_Joy, v |-> Fin(1, 2)],
                            [k |-> Text_fun, v |-> Fin(1, 5)]>>)},
     rotation : {JMissing}]
PuppetBuffers ==
    { <<>>,
      <<"B", "l", "i", "n", "k", "_", "L", "-", "5", "0">>,
      <<"J", "o", "y", "-", "2", "0", "0", "|", "f", "u", "n", "-", "5", "0", "0">>,
      <<"=", "h", "e", "a", "d", "#", "1", ",", "2", ",", "3", ",", "4">>,
      <<"=", "h", "e", "a", "d", "#", "1", ",", "2", ",", "3", ",", "4", "|",
        "J", "o", "y", "-", "2", "0", "0">> }
MediaPipeShapes ==
    { <<>>,
      (Text_BLINK_L :> Fin(1, 1)),
      (Text_joy :> Fin(1, 2)) @@ (Text_Fun :> Fin(1, 5)) }
Projections == {"P1", "P2"}

\* VrmPuppet::handle_vtube_studio
vrm_handle_vtube_studio(doc) ==
    /\ VrmVTubeStudioBody("VrmPuppet::handle_vtube_studio", doc, VTubeStudioData_from(doc))
    /\ UNCHANGED nonPuppet

\* VrmPuppet::handle_meow_face
vrm_handle_meow_face(doc) ==
    /\ VrmVTubeStudioBody("VrmPuppet::handle_meow_face", doc, VTubeStudioData_from(doc))
    /\ UNCHANGED nonPuppet

\* VrmPuppet::handle_i_facial_mocap
vrm_handle_i_facial_mocap(buf) ==
    LET handler == "VrmPuppet::handle_i_facial_mocap"
        decoded == IFacialMocapData_from(buf)
        ik0 == vrm.ik
        ik1 == IF ik0.some
               THEN [ik0 EXCEPT
                      !.head = SetPosition(SetRotationDegrees(@, decoded.rotation),
                          V3Add(ik0.head_starting_transform.origin, decoded.position)),
                      !.left_hand = SetPosition(@,
                          V3Add(ik0.left_hand_starting_transform.origin, decoded.position)),
                      !.right_hand = SetPosition(@,
                          V3Add(ik0.right_hand_starting_transform.origin, decoded.position))]
               ELSE ik0
        shapes == MapEntries(decoded.blend_shapes)
    IN /\ IF ~vrm.skeleton THEN PuppetPanic(handler, buf)
          ELSE /\ ApplyBlendShapes(shapes)
               /\ vrm' = [vrm EXCEPT !.ik = ik1]
               /\ pop' = [handler |-> handler, frame |-> buf]
               /\ UNCHANGED <<glb, avatar>>
       /\ UNCHANGED nonPuppet

\* VrmPuppet::handle_media_pipe: the projection is not used
vrm_handle_media_pipe(projection, blend_shapes) ==
    LET handler == "VrmPuppet::handle_media_pipe"
        frame == [projection |-> projection, blend_shapes |-> blend_shapes]
        shapes == MapEntries(blend_shapes)
    IN /\ IF ~vrm.skeleton THEN PuppetPanic(handler, frame)
          ELSE /\ ApplyBlendShapes(shapes)
               /\ pop' = [handler |-> handler, frame |-> frame]
               /\ UNCHANGED <<vrm, glb, avatar>>
       /\ UNCHANGED nonPuppet

\* skeleton.set_bone_pose_rotation(head_bone_id, q): an index that is no bone is
\* refused by the engine
SetHeadPoseRotation(q) ==
    IF glb.head_bone_id >= 0 THEN [glb EXCEPT !.head_pose_rotation = q] ELSE glb

\* the body of GlbPuppet::handle_vtube_studio
GlbVTubeStudioBody(handler, frame, decoded) ==
    IF ~glb.skeleton THEN PuppetPanic(handler, frame)
    ELSE /\ glb' = IF decoded.rotation.some
                   THEN SetHeadPoseRotation(
                            [kind |-> "from_euler",
                             v |-> V3Scale(V3(decoded.rotation.v[2], decoded.rotation.v[1],
                                              decoded.rotation.v[3]), Scale002)])
                   ELSE glb
         /\ pop' = [handler |-> handler, frame |-> frame]
         /\ pret' = "()"
         /\ UNCHANGED <<vrm, avatar, weights>>

\* GlbPuppet::handle_vtube_studio
glb_handle_vtube_studio(doc) ==
    /\ GlbVTubeStudioBody("GlbPuppet::handle_vtube_studio", doc, VTubeStudioData_from(doc))
    /\ UNCHANGED nonPuppet

\* GlbPuppet::handle_meow_face
glb_handle_meow_face(doc) ==
    /\ GlbVTubeStudioBody("GlbPuppet::handle_meow_face", doc, VTubeStudioData_from(doc))
    /\ UNCHANGED nonPuppet

\* GlbPuppet::handle_i_facial_mocap: an empty body
glb_handle_i_facial_mocap(buf) ==
    /\ pop' = [handler |-> "GlbPuppet::handle_i_facial_mocap", frame |-> buf]
    /\ pret' = "()"
    /\ UNCHANGED <<vrm, glb, avatar, weights>>
    /\ UNCHANGED nonPuppet

\* GlbPuppet::handle_media_pipe
glb_handle_media_pipe(projection, blend_shapes) ==
    LET handler == "GlbPuppet::handle_media_pipe"
        frame == [projection |-> projection, blend_shapes |-> blend_shapes]
    IN /\ IF ~glb.skeleton THEN PuppetPanic(handler, frame)
          ELSE /\ glb' = SetHeadPoseRotation([kind |-> "from_projection", v |-> projection])
               /\ pop' = [handler |-> handler, frame |-> frame]
               /\ pret' = "()"
               /\ UNCHANGED <<vrm, avatar, weights>>
       /\ UNCHANGED nonPuppet

\* the avatar's mesh instance is freed (its node leaves the scene)
FreeMesh ==
    /\ vrm.ready /\ vrm.skeleton
    /\ avatar.mesh_live /\ avatar.meshes # <<>>
    /\ avatar' = [avatar EXCEPT !.mesh_live = FALSE]
    /\ pop' = [handler |-> "MeshInstance3D::free", frame |-> <<>>]
    /\ pret' = "()"
    /\ UNCHANGED <<vrm, glb, weights>>
    /\ UNCHANGED nonPuppet

VrmNext ==
    \/ \E scene \in Scenes : VrmReady(scene)
    \/ FreeMesh
    \/ \E doc \in PuppetDocs : vrm_handle_vtube_studio(doc)
    \/ \E doc \in PuppetDocs : vrm_handle_meow_face(doc)
    \/ \E buf \in PuppetBuffers : vrm_handle_i_facial_mocap(buf)
    \/ \E p \in Projections, bs \in MediaPipeShapes : vrm_handle_media_pipe(p, bs)

SpecVrm == Init /\ [][VrmNext]_vars

GlbNext ==
    \/ \E scene \in Scenes : GlbReady(scene)
    \/ \E doc \in PuppetDocs : glb_handle_vtube_studio(doc)
    \/ \E doc \in PuppetDocs : glb_handle_meow_face(doc)
    \/ \E buf \in PuppetBuffers : glb_handle_i_facial_mocap(buf)
    \/ \E p \in Projections, bs \in MediaPipeShapes : glb_handle_media_pipe(p, bs)

SpecGlb == Init /\ [][GlbNext]_vars

(***************************************************************************)
(* The command line: Args::parse, Tracker::from_str, init_rust_log         *)
(***************************************************************************)
CUSTOM_PREFIX == <<"c", "u", "s", "t", "o", "m", ":">>

\* str::strip_prefix: the rest of s after one leading prefix, or None
StripPrefixRepeated(s, prefix) ==
    LET RECURSIVE strip(_)
        strip(t) == IF Len(t) >= Len(prefix) /\ SubSeq(t, 1, Len(prefix)) = prefix
                    THEN strip(SubSeq(t, Len(prefix) + 1, Len(t)))
                    ELSE t
    IN IF Len(s) >= Len(prefix) /\ SubSeq(s, 1, Len(prefix)) = prefix
       THEN Some(strip(s)) ELSE Absent

StripPrefix(s, prefix) ==
    IF Len(s) >= Len(prefix) /\ SubSeq(s, 1, Len(prefix)) = prefix
    THEN Some(SubSeq(s, Len(prefix) + 1, Len(s)))
    ELSE Absent

Tracker(variant) == [variant |-> variant, name |-> <<>>]
TrackerCustom(name) == [variant |-> "Custom", name |-> name]
TrackerOk(t) == [ok |-> TRUE, v |-> t]
\* Err(CliError::UnknownTracker { input })
UnknownTracker(text) == [ok |-> FALSE, v |-> [variant |-> "UnknownTracker", name |-> text]]

\* Tracker::from_str
Tracker_from_str(s) ==
    LET lower == ToLowercase(s)
    IN IF lower \in {<<"m", "e", "d", "i", "a", "p", "i", "p", "e">>, <<"m", "p">>}
       THEN TrackerOk(Tracker("MediaPipe"))
       ELSE IF lower \in {<<"i", "f", "a", "c", "i", "a", "l", "m", "o", "c", "a", "p">>, <<"i", "f", "m">>}
       THEN TrackerOk(Tracker("IFacialMocap"))
       ELSE IF lower \in {<<"v", "t", "u", "b", "e", "s", "t", "u", "d", "i", "o">>, <<"v", "t", "s">>}
       THEN TrackerOk(Tracker("VTubeStudio"))
       ELSE IF lower \in {<<"m", "e", "o", "w", "f", "a", "c", "e">>, <<"m", "f">>}
       THEN TrackerOk(Tracker("MeowFace"))
       ELSE IF lower \in {<<"o", "p", "e", "n", "s", "e", "e", "f", "a", "c", "e">>, <<"o", "s", "f">>}
       THEN TrackerOk(Tracker("OpenSeeFace"))
       ELSE LET v == StripPrefix(s, CUSTOM_PREFIX)
            IN IF v.some /\ Len(v.v) > 0
               THEN TrackerOk(TrackerCustom(v.v))
               ELSE UnknownTracker(s)

Arg_verbose == <<"-", "-", "v", "e", "r", "b", "o", "s", "e">>
Arg_v == <<"-", "v">>
Arg_quiet == <<"-", "-", "q", "u", "i", "e", "t">>
Arg_q == <<"-", "q">>
Arg_launch == <<"l", "a", "u", "n", "c", "h">>
Arg_tracker == <<"-", "-", "t", "r", "a", "c", "k", "e", "r">>

\* LaunchCommand: one positional runner_data and the option --tracker
RECURSIVE LaunchCommand(_, _)
LaunchCommand(acc, rest) ==
    IF rest = <<>>
    THEN (IF acc.has_command THEN [acc EXCEPT !.ok = TRUE] ELSE ArgsDefault)
    ELSE IF Head(rest) = Arg_tracker
    THEN (IF Len(rest) < 2 \/ acc.tracker.some THEN ArgsDefault
          ELSE LET t == Tracker_from_str(rest[2])
               IN IF t.ok
                  THEN LaunchCommand([acc EXCEPT !.tracker = Some(t.v)], Tail(Tail(rest)))
                  ELSE ArgsDefault)
    ELSE IF Head(rest) # <<>> /\ Head(rest)[1] = "-" THEN ArgsDefault
    ELSE IF acc.has_command THEN ArgsDefault
    ELSE LaunchCommand([acc EXCEPT !.has_command = TRUE, !.runner_data = Head(rest)],
                       Tail(rest))

\* Args::parse for the switches and the launch command: a record with ok FALSE
\* stands for Err(CliError::ParseFailure)
RECURSIVE Args_parse(_, _)
Args_parse(acc, rest) ==
    IF rest = <<>> THEN [acc EXCEPT !.ok = TRUE]
    ELSE IF Head(rest) \in {Arg_verbose, Arg_v}
    THEN Args_parse([acc EXCEPT !.verbose = TRUE], Tail(rest))
    ELSE IF Head(rest) \in {Arg_quiet, Arg_q}
    THEN Args_parse([acc EXCEPT !.quiet = TRUE], Tail(rest))
    ELSE IF Head(rest) = Arg_launch
    THEN LET c == LaunchCommand(acc, Tail(rest))
         IN IF c.ok THEN c ELSE ArgsDefault
    ELSE ArgsDefault

\* the global level init_rust_log gives the logger
GlobalLevelVerboseFirst(quiet, verbose) ==
    IF verbose THEN "Debug" ELSE IF quiet THEN "Error" ELSE "Info"

GlobalLevel(quiet, verbose) ==
    IF quiet THEN "Error" ELSE IF verbose THEN "Debug" ELSE "Info"

\* The texts given to Tracker::from_str and the argument lists given to
\* Args::parse.
TrackerTexts ==
    { <<"m", "e", "d", "i", "a", "p", "i", "p", "e">>,
      <<"m", "p">>,
      <<"m", "e", "D", "i", "A", "P", "I", "P", "E">>,
      <<"M", "P">>,
      <<"i", "f", "a", "c", "i", "a", "l", "m", "o", "c", "a", "p">>,
      <<"I", "F", "M">>,
      <<"i", "f", "m">>,
      <<"v", "t", "u", "b", "e", "s", "t", "u", "d", "i", "o">>,
      <<"V", "T", "S">>,
      <<"v", "t", "s">>,
      <<"m", "e", "o", "w", "f", "a", "c", "e">>,
      <<"M", "e", "o", "w", "F", "a", "c", "e">>,
      <<"m", "f">>,
      <<"o", "p", "e", "n", "s", "e", "e", "f", "a", "c", "e">>,
      <<"O", "S", "F">>,
      <<"o", "s", "f">>,
      <<"c", "u", "s", "t", "o", "m", ":", "w", "o", "o">>,
      <<"c", "u", "s", "t", "o", "m", ":", "c", "u", "s", "t", "o", "m", ":">>,
      <<"c", "u", "s", "t", "o", "m", ":">>,
      <<"C", "u", "s", "t", "o", "m", ":", "w", "o", "o">>,
      <<"C", "U", "S", "T", "O", "M", ":", "w", "o", "o">>,
      <<"c", "u", "s", "t", "o", "m", ":", "M", "P">>,
      <<"c", "u", "s", "t", "o", "m">>,
      <<"_", "_", "i", "n", "v", "a", "l", "i", "d", "_", "_">>,
      <<>>,
      <<"m", "p", " ">>,
      <<"c", "u", "s", "t", "o", "m", ":", " ">>,
      <<"x", "c", "u", "s", "t", "o", "m", ":", "w", "o", "o">>,
      <<"m", "e", "d", "i", "a", " ", "p", "i", "p", "e">>,
      <<"c", "u", "s", "t", "o", "m", ":", "c", "u", "s", "t", "o", "m", ":", "c", "u", "s", "t", "o", "m", ":", "x">> }
ArgLists ==
    { <<>>,
      <<<<"-", "-", "v", "e", "r", "b", "o", "s", "e">>>>,
      <<<<"-", "v">>>>,
      <<<<"-", "-", "q", "u", "i", "e", "t">>>>,
      <<<<"-", "q">>>>,
      <<<<"-", "-", "q", "u", "i", "e", "t">>, <<"-", "-", "v", "e", "r", "b", "o", "s", "e">>>>,
      <<<<"-", "-", "v", "e", "r", "b", "o", "s", "e">>, <<"-", "-", "q", "u", "i", "e", "t">>>>,
      <<<<"-", "v">>, <<"-", "q">>>>,
      <<<<"l", "a", "u", "n", "c", "h">>, <<"b", "l", "a", "h">>>>,
      <<<<"l", "a", "u", "n", "c", "h">>, <<"b", "l", "a", "h">>, <<"-", "-", "t", "r", "a", "c", "k", "e", "r">>, <<"m", "e", "d", "i", "a", "p", "i", "p", "e">>>>,
      <<<<"l", "a", "u", "n", "c", "h">>, <<"b", "l", "a", "h">>, <<"-", "-", "t", "r", "a", "c", "k", "e", "r">>, <<"m", "p">>>>,
      <<<<"l", "a", "u", "n", "c", "h">>, <<"b", "l", "a", "h">>, <<"-", "-", "t", "r", "a", "c", "k", "e", "r">>, <<"m", "e", "D", "i", "A", "P", "I", "P", "E">>>>,
      <<<<"l", "a", "u", "n", "c", "h">>, <<"b", "l", "a", "h">>, <<"-", "-", "t", "r", "a", "c", "k", "e", "r">>, <<"c", "u", "s", "t", "o", "m", ":", "w", "o", "o">>>>,
      <<<<"l", "a", "u", "n", "c", "h">>, <<"b", "l", "a", "h">>, <<"-", "-", "t", "r", "a", "c", "k", "e", "r">>, <<"c", "u", "s", "t", "o", "m", ":", "c", "u", "s", "t", "o", "m", ":">>>>,
      <<<<"l", "a", "u", "n", "c", "h">>, <<"-", "-", "t", "r", "a", "c", "k", "e", "r">>, <<"m", "p">>>>,
      <<<<"l", "a", "u", "n", "c", "h">>, <<"b", "l", "a", "h">>, <<"-", "-", "t", "r", "a", "c", "k", "e", "r">>, <<"_", "_", "i", "n", "v", "a", "l", "i", "d", "_", "_">>>>,
      <<<<"l", "a", "u", "n", "c", "h">>, <<"b", "l", "a", "h">>, <<"-", "-", "t", "r", "a", "c", "k", "e", "r">>>>,
      <<<<"l", "a", "u", "n", "c", "h">>, <<"b", "l", "a", "h">>, <<"-", "-", "t", "r", "a", "c", "k", "e", "r">>, <<"c", "u", "s", "t", "o", "m", ":">>>>,
      <<<<"l", "a", "u", "n", "c", "h">>, <<"m", "e", "d", "i", "a", "p", "i", "p", "e">>, <<"b", "l", "a", "h">>, <<"-", "-", "t", "r", "a", "c", "k", "e", "r">>>>,
      <<<<"-", "-", "q", "u", "i", "e", "t">>, <<"l", "a", "u", "n", "c", "h">>, <<"b", "l", "a", "h">>, <<"-", "-", "t", "r", "a", "c", "k", "e", "r">>, <<"v", "t", "s">>>>,
      <<<<"-", "q">>, <<"-", "v">>, <<"l", "a", "u", "n", "c", "h">>, <<"b", "l", "a", "h">>>>,
      <<<<"-", "-", "b", "o", "g", "u", "s">>>> }

\* a call of Args::parse
ArgsParse(args) ==
    /\ cli' = [called |-> TRUE, args |-> args, parsed |-> Args_parse(ArgsDefault, args)]
    /\ UNCHANGED <<tracker, rust_log>>
    /\ UNCHANGED nonCli

\* a call of Tracker::from_str
TrackerFromStr(s) ==
    /\ tracker' = [called |-> TRUE, input |-> s,
                   ok |-> Tracker_from_str(s).ok, v |-> Tracker_from_str(s).v]
    /\ UNCHANGED <<cli, rust_log>>
    /\ UNCHANGED nonCli

\* LibVpuppr::init_rust_log, the call that installs the logger
init_rust_log(quiet, verbose) ==
    /\ ~rust_log.called
    /\ rust_log' = [called |-> TRUE, quiet |-> quiet, verbose |-> verbose,
                    level |-> GlobalLevel(quiet, verbose)]
    /\ UNCHANGED <<cli, tracker>>
    /\ UNCHANGED nonCli

CliNext ==
    \/ \E args \in ArgLists : ArgsParse(args)
    \/ \E s \in TrackerTexts : TrackerFromStr(s)
    \/ \E quiet, verbose \in BOOLEAN : init_rust_log(quiet, verbose)

SpecCli == Init /\ [][CliNext]_vars

(***************************************************************************)
(* The log store: Logger::log, add_to_log_store, flush_logs.  The receiver   *)
(* model keeps what each call logged in clog and wlog; the static store the *)
(* messages go to is modelled here, for the consumer thread and the worker  *)
(* thread that both hold a Logger.  LOG_STORE is a static mut behind no     *)
(* lock: each thread's accesses are steps of their own, in any order.       *)
(***************************************************************************)
MAX_LOGS == 128
\* Logger::log calls of one thread
MaxLogCalls == 2

\* a slot of the Vec's buffer whose String was dropped by clear()
Dropped == [by |-> "dropped", n |-> 0]

\* the store when the worker is spawned: what the consumer thread logged alone
\* since the last flush, numbered back from 0
StartupStore(count) == [i \in 1..count |-> [by |-> "consumer", n |-> i - count]]
StartupCounts == {0, MAX_LOGS - 2, MAX_LOGS - 1}

LInit ==
    /\ \E count \in StartupCounts : LOG_STORE = StartupStore(count)
    /\ log_file = {}
    /\ logging = [t \in LogThreads |-> NotLogging]
    /\ log_calls = [t \in LogThreads |-> 0]

LogInit == RInit /\ DIdle /\ JIdle /\ PInit /\ CIdle /\ LInit

\* Vec::push's write at the length it read: ptr.add(len).write(value) and
\* self.len = len + 1.  Slots past the Vec's present length hold dropped
\* Strings.
VecWriteAt(store, len, message) ==
    [i \in 1..(len + 1) |->
        IF i = len + 1 THEN message
        ELSE IF i <= Len(store) THEN store[i] ELSE Dropped]

\* Logger::log up to the call of add_to_log_store: the message is formatted and
\* printed
Logger_log(t) ==
    /\ logging[t].pc = "idle"
    /\ log_calls[t] < MaxLogCalls
    /\ log_calls' = [log_calls EXCEPT ![t] = @ + 1]
    /\ logging' = [logging EXCEPT ![t] =
                     [NotLogging EXCEPT !.pc = "push",
                                        !.message = [by |-> t, n |-> log_calls[t] + 1]]]
    /\ UNCHANGED <<LOG_STORE, log_file>>
    /\ UNCHANGED nonLogger

\* LOG_STORE.push(message), first half: Vec::push reads self.len
VecPushReadLen(t) ==
    /\ logging[t].pc = "push"
    /\ logging' = [logging EXCEPT ![t].pc = "write", ![t].len = Len(LOG_STORE)]
    /\ UNCHANGED <<LOG_STORE, log_file, log_calls>>
    /\ UNCHANGED nonLogger

\* LOG_STORE.push(message), second half: the write and the new length
VecPushWrite(t) ==
    /\ logging[t].pc = "write"
    /\ LOG_STORE' = VecWriteAt(LOG_STORE, logging[t].len, logging[t].message)
    /\ logging' = [logging EXCEPT ![t].pc = "check"]
    /\ UNCHANGED <<log_file, log_calls>>
    /\ UNCHANGED nonLogger

\* if LOG_STORE.len() >= MAX_LOGS { flush_logs() }
CheckLen(t) ==
    /\ logging[t].pc = "check"
    /\ logging' = [logging EXCEPT ![t] =
                     IF Len(LOG_STORE) >= MAX_LOGS THEN [@ EXCEPT !.pc = "flush"]
                     ELSE NotLogging]
    /\ UNCHANGED <<LOG_STORE, log_file, log_calls>>
    /\ UNCHANGED nonLogger

\* flush_logs up to clear(): the file is opened and, if that succeeded, every
\* message in the store is written to it
FlushWrite(t, opened) ==
    /\ logging[t].pc = "flush"
    /\ log_file' = IF opened THEN log_file \cup {LOG_STORE[i] : i \in 1..Len(LOG_STORE)}
                   ELSE log_file
    /\ logging' = [logging EXCEPT ![t].pc = "clear", ![t].opened = opened]
    /\ UNCHANGED <<LOG_STORE, log_calls>>
    /\ UNCHANGED nonLogger

\* LOG_STORE.clear(), and the return from Logger::log
FlushClear(t) ==
    /\ logging[t].pc = "clear"
    /\ LOG_STORE' = <<>>
    /\ logging' = [logging EXCEPT ![t] = NotLogging]
    /\ UNCHANGED <<log_file, log_calls>>
    /\ UNCHANGED nonLogger

LogNext ==
    \/ \E t \in LogThreads : Logger_log(t)
    \/ \E t \in LogThreads : VecPushReadLen(t)
    \/ \E t \in LogThreads : VecPushWrite(t)
    \/ \E t \in LogThreads : CheckLen(t)
    \/ \E t \in LogThreads, opened \in BOOLEAN : FlushWrite(t, opened)
    \/ \E t \in LogThreads : FlushClear(t)

SpecLog == LogInit /\ [][LogNext]_vars

(***************************************************************************)
(* Text decoder properties                                                 *)
(***************************************************************************)
Pieces == Split(input, <<"|">>)
BothDecoded == dpc.on /\ dpc.dp /\ dpc.td /\ FromUtf8Ok(input)

\* the tokens `key#...` of the buffer, by position
KeyTokens(key) ==
    {i \in 1..Len(Pieces) : SplitOnce(Pieces[i], <<"#">>).some
                            /\ SplitOnce(Pieces[i], <<"#">>).k = key}
LastOf(S) == CHOOSE i \in S : \A j \in S : j <= i
\* the comma-separated values of token i
ValuesOf(i) == Split(SplitOnce(Pieces[i], <<"#">>).v, <<",">>)
WellFormed(vals, n) == Len(vals) = n /\ \A j \in 1..n : ParseF32(vals[j]).ok
ParsedV3(vals, j) ==
    V3(ParseF32(vals[j]).val, ParseF32(vals[j + 1]).val, ParseF32(vals[j + 2]).val)

\* C9: when the buffer's last =head token has exactly 6 well-formed floats, both
\* decoders give values 1-3 as the rotation and values 4-6 as the position; when
\* its last rightEye (leftEye) token has exactly 3 well-formed floats, both give
\* those 3 values as the eye vector.
C9_HeadAndEyeValues ==
    BothDecoded =>
        /\ (KeyTokens(Text_head) # {} /\ WellFormed(ValuesOf(LastOf(KeyTokens(Text_head))), 6)) =>
              LET vals == ValuesOf(LastOf(KeyTokens(Text_head)))
              IN /\ out_dp.rotation = Some(ParsedV3(vals, 1))
                 /\ out_dp.position = Some(ParsedV3(vals, 4))
                 /\ out_td.rotation = ParsedV3(vals, 1)
                 /\ out_td.position = ParsedV3(vals, 4)
        /\ (KeyTokens(Text_rightEye) # {}
              /\ WellFormed(ValuesOf(LastOf(KeyTokens(Text_rightEye))), 3)) =>
              LET vals == ValuesOf(LastOf(KeyTokens(Text_rightEye)))
              IN /\ out_dp.right_eye = Some(ParsedV3(vals, 1))
                 /\ out_td.right_eye = ParsedV3(vals, 1)
        /\ (KeyTokens(Text_leftEye) # {}
              /\ WellFormed(ValuesOf(LastOf(KeyTokens(Text_leftEye))), 3)) =>
              LET vals == ValuesOf(LastOf(KeyTokens(Text_leftEye)))
              IN /\ out_dp.left_eye = Some(ParsedV3(vals, 1))
                 /\ out_td.left_eye = ParsedV3(vals, 1)

\* the tokens KEY-V without '#', by position
ShapeTokens ==
    {i \in 1..Len(Pieces) : ~SplitOnce(Pieces[i], <<"#">>).some
                            /\ SplitOnce(Pieces[i], <<"-">>).some}
ShapeKey(i) == ToLowercase(ReplaceSides(SplitOnce(Pieces[i], <<"-">>).k))
ShapeValue(i) == F32Div(Fin(ParseI16(SplitOnce(Pieces[i], <<"-">>).v).val, 1), Fin(100, 1))
\* token i is the last one of its key
LastOfKey(i) == \A j \in ShapeTokens : ShapeKey(j) = ShapeKey(i) => j <= i

\* C10 for one decoder's blend-shape map
ShapesStored(m) ==
    \A i \in ShapeTokens :
        /\ ShapeKey(i) \in DOMAIN m
        /\ LastOfKey(i) => m[ShapeKey(i)] = ShapeValue(i)

\* C10: for every token KEY-V without '#', both decoders hold a blend shape under
\* KEY with _L -> left, _R -> right, lowercased, and its value (the last token of
\* a key deciding) is V parsed as i16, or 0, divided by 100.
C10_BlendShapeKeyAndValue ==
    BothDecoded => ShapesStored(out_dp.blend_shapes) /\ ShapesStored(out_td.blend_shapes)

\* C10 as far as DataParser::ifacial_mocap goes, which conforms to it
DataParserBlendShapesConform ==
    (dpc.on /\ dpc.dp /\ FromUtf8Ok(input)) => ShapesStored(out_dp.blend_shapes)

\* IFacialMocapData as a frame: its vector fields are plain Vector3 values, so
\* each of them is always present.
IFacialMocapDataFrame(d) ==
    [rotation |-> Some(d.rotation), position |-> Some(d.position),
     right_eye |-> Some(d.right_eye), left_eye |-> Some(d.left_eye),
     blend_shapes |-> d.blend_shapes, errors |-> d.errors]

EmptyOrInvalid(bytes) == bytes = <<>> \/ ~FromUtf8Ok(bytes)
\* a frame with no blend shape and no vector
EmptyFrame(f) ==
    /\ f.blend_shapes = <<>>
    /\ ~f.rotation.some /\ ~f.position.some /\ ~f.right_eye.some /\ ~f.left_eye.some

\* C11: decoding an empty buffer, or one that is not valid UTF-8, yields from
\* both text decoders a frame with an empty blend-shape map in which head
\* rotation, head position and both eye rotations are absent.
C11_EmptyOrInvalidBuffer ==
    (dpc.on /\ EmptyOrInvalid(input)) =>
        /\ dpc.dp => EmptyFrame(out_dp)
        /\ dpc.td => EmptyFrame(IFacialMocapDataFrame(out_td))

\* C11 as far as DataParser::ifacial_mocap goes, which conforms to it
DataParserEmptyConforms ==
    (dpc.on /\ dpc.dp /\ EmptyOrInvalid(input)) => EmptyFrame(out_dp)

NotNaNV3(v) == \A i \in 1..3 : v[i].kind # "nan"
\* no vector component and no blend-shape weight of frame f is NaN
NoNaN(f) ==
    /\ \A k \in DOMAIN f.blend_shapes : f.blend_shapes[k].kind # "nan"
    /\ f.rotation.some => NotNaNV3(f.rotation.v)
    /\ f.position.some => NotNaNV3(f.position.v)
    /\ f.right_eye.some => NotNaNV3(f.right_eye.v)
    /\ f.left_eye.some => NotNaNV3(f.left_eye.v)

\* C12: for every input buffer, no vector component and no blend-shape weight of
\* the frame a text decoder produces is NaN (a numeric field that is no usable
\* number is replaced by 0).
C12_NoNaNInFrame ==
    dpc.on => /\ dpc.dp => NoNaN(out_dp)
              /\ dpc.td => NoNaN(IFacialMocapDataFrame(out_td))

\* component j of a =head token's values: the value if it is there and
\* parses, else 0.0
Component(vals, j) ==
    IF j <= Len(vals) /\ ParseF32(vals[j]).ok THEN ParseF32(vals[j]).val ELSE F32Zero

\* the buffer without its =head tokens
NotHeadToken(tok) == ~(SplitOnce(tok, <<"#">>).some /\ SplitOnce(tok, <<"#">>).k = Text_head)
WithoutHead ==
    IF SelectSeq(Pieces, NotHeadToken) = <<>> THEN <<>>
    ELSE JoinTokens(SelectSeq(Pieces, NotHeadToken))

\* the eyes, the blend shapes and the errors of both frames are those the
\* decoders give for the buffer without its =head tokens
RestOfFrameDecoded ==
    LET dp == DataParser_ifacial_mocap(WithoutHead)
        td == IFacialMocapData_from(WithoutHead)
    IN /\ out_dp.right_eye = dp.right_eye /\ out_dp.left_eye = dp.left_eye
       /\ out_dp.blend_shapes = dp.blend_shapes /\ out_dp.errors = dp.errors
       /\ out_td.right_eye = td.right_eye /\ out_td.left_eye = td.left_eye
       /\ out_td.blend_shapes = td.blend_shapes /\ out_td.errors = td.errors

\* C28: when the buffer's last =head token has fewer than 6 comma-separated
\* values, both decoders give each value that is there and parses as the
\* component at its position (1-3 the rotation, 4-6 the position) and 0.0 for
\* every other component, and the rest of the frame is decoded as it is
\* without the =head tokens.
C28_ShortHeadZeroPadded ==
    (BothDecoded /\ KeyTokens(Text_head) # {}
       /\ Len(ValuesOf(LastOf(KeyTokens(Text_head)))) < 6) =>
        LET vals == ValuesOf(LastOf(KeyTokens(Text_head)))
            rotation == V3(Component(vals, 1), Component(vals, 2), Component(vals, 3))
            position == V3(Component(vals, 4), Component(vals, 5), Component(vals, 6))
        IN /\ out_dp.rotation = Some(rotation) /\ out_dp.position = Some(position)
           /\ out_td.rotation = rotation /\ out_td.position = position
           /\ RestOfFrameDecoded

\* "=head#1,x,3,4" was decoded beside a rightEye token: rotation (1, 0, 3),
\* position (4, 0, 0), and the eye decoded
C28_Witness ==
    /\ BothDecoded /\ KeyTokens(Text_head) # {} /\ KeyTokens(Text_rightEye) # {}
    /\ Len(ValuesOf(LastOf(KeyTokens(Text_head)))) = 4
    /\ ~ParseF32(ValuesOf(LastOf(KeyTokens(Text_head)))[2]).ok
    /\ out_td.rotation = V3(Fin(1, 1), F32Zero, Fin(3, 1))
    /\ out_td.position = V3(Fin(4, 1), F32Zero, F32Zero)
    /\ out_dp.rotation = Some(out_td.rotation) /\ out_dp.position = Some(out_td.position)
    /\ out_td.right_eye[1] = Fin(1, 1) /\ out_dp.right_eye.some

(***************************************************************************)
(* JSON decoder properties                                                 *)
(***************************************************************************)
\* every field the document lacks is absent in output f
MissingIsAbsent(f) ==
    /\ jdoc.Rotation.t = "missing" => ~f.rotation.some
    /\ jdoc.Position.t = "missing" => ~f.position.some
    /\ jdoc.EyeLeft.t = "missing" => ~f.eye_left.some
    /\ jdoc.EyeRight.t = "missing" => ~f.eye_right.some
    /\ jdoc.BlendShapes.t = "missing" => ~f.blend_shapes.some

\* C13: for a JSON document in which Rotation, Position, EyeLeft, EyeRight or
\* BlendShapes is missing, each JSON decoder's output marks that field as absent
\* rather than giving it a zero or empty value.
C13_MissingFieldAbsent ==
    (jpc.on /\ FromSliceVTubeStudioData(jdoc).ok) =>
        /\ jpc.dp => MissingIsAbsent(out_vdp)
        /\ jpc.vts => MissingIsAbsent(out_vts)

\* C13 as far as VTubeStudioData::from goes, which conforms to it
VTubeStudioDataMissingConforms ==
    (jpc.on /\ jpc.vts /\ FromSliceVTubeStudioData(jdoc).ok) => MissingIsAbsent(out_vts)

\* the default frame after one logged error
DefaultFrameOneError(f) ==
    /\ Len(f.errors) = 1
    /\ ~f.rotation.some /\ ~f.position.some /\ ~f.eye_left.some /\ ~f.eye_right.some
    /\ ~f.blend_shapes.some \/ f.blend_shapes.v = <<>>

\* C14: decoding a malformed JSON document logs exactly one error and yields
\* the default frame: every optional field absent, no blend shapes.
C14_MalformedGivesDefault ==
    (jpc.on /\ ~FromSliceVTubeStudioData(jdoc).ok) =>
        /\ jpc.dp => DefaultFrameOneError(out_vdp)
        /\ jpc.vts => DefaultFrameOneError(out_vts)

\* C14 as far as VTubeStudioData::from goes, which conforms to it
VTubeStudioDataMalformedConforms ==
    (jpc.on /\ jpc.vts /\ ~FromSliceVTubeStudioData(jdoc).ok) => DefaultFrameOneError(out_vts)


(***************************************************************************)
(* Puppet properties                                                       *)
(***************************************************************************)
VrmHandlers ==
    {"VrmPuppet::handle_vtube_studio", "VrmPuppet::handle_meow_face",
     "VrmPuppet::handle_i_facial_mocap", "VrmPuppet::handle_media_pipe"}
GlbHandlers ==
    {"GlbPuppet::handle_vtube_studio", "GlbPuppet::handle_meow_face",
     "GlbPuppet::handle_i_facial_mocap", "GlbPuppet::handle_media_pipe"}

\* the blend shapes of the frame a handler call was given
FrameShapes(call) ==
    IF call.handler \in {"VrmPuppet::handle_vtube_studio", "VrmPuppet::handle_meow_face"}
    THEN (LET d == VTubeStudioData_from(call.frame)
          IN IF d.blend_shapes.some THEN d.blend_shapes.v ELSE <<>>)
    ELSE IF call.handler = "VrmPuppet::handle_i_facial_mocap"
    THEN MapEntries(IFacialMocapData_from(call.frame).blend_shapes)
    ELSE IF call.handler = "VrmPuppet::handle_media_pipe"
    THEN MapEntries(call.frame.blend_shapes)
    ELSE <<>>

\* the animations the avatar's player gave before the first it could not give
RECURSIVE Harvested(_)
Harvested(clips) ==
    IF clips = <<>> \/ ~Head(clips).ok THEN <<>>
    ELSE <<Head(clips)>> \o Harvested(Tail(clips))

AvatarClips == IF avatar.anim_player THEN Harvested(avatar.clips) ELSE <<>>

SameIgnoringCase(a, b) == ToLowercase(a) = ToLowercase(b)

NamesAClip(name) ==
    \E i \in 1..Len(AvatarClips) : SameIgnoringCase(AvatarClips[i].name, name)

\* the entry built from the clips named `name` in any letter case: the last
\* such clip's morphs
ClipEntry(name) ==
    LET i == CHOOSE i \in 1..Len(AvatarClips) :
                 /\ SameIgnoringCase(AvatarClips[i].name, name)
                 /\ \A j \in (i + 1)..Len(AvatarClips) :
                        ~SameIgnoringCase(AvatarClips[j].name, name)
    IN LET morphs == TrackMorphs(AvatarClips[i].tracks)
       IN {m \in {morphs[t] : t \in 1..Len(morphs)} : m \in DOMAIN avatar.meshes}

\* the values the shapes of a frame give to a morph
Writers(shapes, morph) ==
    {shapes[i].v : i \in {i \in 1..Len(shapes) :
                             NamesAClip(shapes[i].k) /\ morph \in ClipEntry(shapes[i].k)}}

\* C15: a blend-shape name of a frame finds the entry built from the animation
\* clip of that name whatever the letter case of either: after a VrmPuppet
\* handler applied a frame, every morph of the entry of a clip whose name equals
\* a blend-shape name of the frame ignoring case holds a value the frame gave
\* under such a name.
C15_LookupIgnoresCase ==
    (pop.handler \in VrmHandlers /\ pret = "()") =>
        \A m \in DOMAIN weights :
            Writers(FrameShapes(pop), m) # {} => weights[m] \in Writers(FrameShapes(pop), m)

\* a frame naming "Blink_L" or "BLINK_L" was applied to an avatar whose clip is
\* stored under "blink_l", and the clip's morph took the frame's value
C15_Witness ==
    /\ pop.handler \in VrmHandlers /\ pret = "()"
    /\ \E i \in 1..Len(FrameShapes(pop)) :
          LET s == FrameShapes(pop)[i]
          IN /\ NamesAClip(s.k)
             /\ \A j \in 1..Len(AvatarClips) : AvatarClips[j].name # ToLowercase(s.k)
             /\ s.k # ToLowercase(s.k)
             /\ ToLowercase(s.k) \in DOMAIN vrm.expression_mappings
             /\ ClipEntry(s.k) # {}
             /\ \A m \in ClipEntry(s.k) : weights[m] = s.v /\ s.v # F32Zero


\* a frame that carries blend shapes and neither a rotation nor a position
OnlyBlendShapes(call) ==
    IF call.handler \in {"VrmPuppet::handle_vtube_studio", "VrmPuppet::handle_meow_face",
                         "GlbPuppet::handle_vtube_studio", "GlbPuppet::handle_meow_face"}
    THEN /\ call.frame.Rotation = JMissing /\ call.frame.Position = JMissing
         /\ call.frame.BlendShapes # JMissing
    ELSE IF call.handler \in {"VrmPuppet::handle_i_facial_mocap",
                              "GlbPuppet::handle_i_facial_mocap"}
    THEN /\ call.frame # <<>>
         /\ \A i \in 1..Len(Split(call.frame, <<"|">>)) :
                ~SplitOnce(Split(call.frame, <<"|">>)[i], <<"#">>).some
    ELSE FALSE

\* C16: a handler call given a frame that carries only blend shapes leaves the
\* head and hand target transforms and the bone poses as they were before the
\* call.
C16_BlendShapesOnlyKeepsPoses ==
    [][(pop'.handler \in VrmHandlers \cup GlbHandlers /\ pret' = "()" /\ OnlyBlendShapes(pop'))
         => (vrm'.ik = vrm.ik /\ glb' = glb)]_vars

\* the same for the handlers of JSON frames alone
VTubeStudioHandlersKeepPoses ==
    [][(pop'.handler \in {"VrmPuppet::handle_vtube_studio", "VrmPuppet::handle_meow_face"}
          /\ pret' = "()" /\ OnlyBlendShapes(pop'))
         => (vrm'.ik = vrm.ik /\ glb' = glb)]_vars

\* C17: applying the frame that was just applied, once more, leaves the target
\* transforms, the bone poses and the morph weights as they were.
C17_SameFrameTwice ==
    [][(pop' = pop /\ pop.handler \in VrmHandlers \cup GlbHandlers /\ pret = "()" /\ pret' = "()")
         => (vrm' = vrm /\ glb' = glb /\ weights' = weights)]_vars

\* the same for the target transforms and bone poses alone
SameFrameTwiceKeepsPoses ==
    [][(pop' = pop /\ pop.handler \in VrmHandlers \cup GlbHandlers /\ pret = "()" /\ pret' = "()")
         => (vrm' = vrm /\ glb' = glb)]_vars


(***************************************************************************)
(* Command line properties                                                 *)
(***************************************************************************)
\* the tracker each name stands for
TrackerNames ==
    (<<"m", "e", "d", "i", "a", "p", "i", "p", "e">> :> "MediaPipe") @@ (<<"m", "p">> :> "MediaPipe")
    @@ (<<"i", "f", "a", "c", "i", "a", "l", "m", "o", "c", "a", "p">> :> "IFacialMocap") @@ (<<"i", "f", "m">> :> "IFacialMocap")
    @@ (<<"v", "t", "u", "b", "e", "s", "t", "u", "d", "i", "o">> :> "VTubeStudio") @@ (<<"v", "t", "s">> :> "VTubeStudio")
    @@ (<<"m", "e", "o", "w", "f", "a", "c", "e">> :> "MeowFace") @@ (<<"m", "f">> :> "MeowFace")
    @@ (<<"o", "p", "e", "n", "s", "e", "e", "f", "a", "c", "e">> :> "OpenSeeFace") @@ (<<"o", "s", "f">> :> "OpenSeeFace")

NamesATracker(s) == \E n \in DOMAIN TrackerNames : SameIgnoringCase(s, n)
CustomName(s) == SubSeq(s, Len(CUSTOM_PREFIX) + 1, Len(s))
IsCustom(s) == IsPrefix(CUSTOM_PREFIX, s) /\ Len(s) > Len(CUSTOM_PREFIX)

\* C18: Tracker::from_str gives the tracker of a name written in any letter
\* case, gives Custom(name) for "custom:" followed by a non-empty name, the name
\* being the text after the first "custom:", and gives an error for every other
\* text.
C18_TrackerParsing ==
    tracker.called =>
        /\ \A n \in DOMAIN TrackerNames :
              SameIgnoringCase(tracker.input, n) =>
                  tracker.ok /\ tracker.v = [variant |-> TrackerNames[n], name |-> <<>>]
        /\ (~NamesATracker(tracker.input) /\ IsCustom(tracker.input)) =>
              tracker.ok /\ tracker.v = [variant |-> "Custom", name |-> CustomName(tracker.input)]
        /\ (~NamesATracker(tracker.input) /\ ~IsCustom(tracker.input)) => ~tracker.ok

\* "custom:custom:" was parsed and gave Custom("custom:")
C18_Witness ==
    /\ tracker.called /\ tracker.ok
    /\ tracker.input = CUSTOM_PREFIX \o CUSTOM_PREFIX
    /\ tracker.v = [variant |-> "Custom", name |-> CUSTOM_PREFIX]

HasArg(a) == \E i \in 1..Len(cli.args) : cli.args[i] = a

C20_PollNeverPanics == op = "poll" => ret # "panic"

\* the same once start() has handed the receiver its data channel
PollWithChannelReturns == (op = "poll" /\ receiver # None) => ret # "panic"


(***************************************************************************)
(* Worker properties                                                       *)
(***************************************************************************)
WellFormedDatagrams == {d \in Datagrams : d.kind = "datagram" /\ d.well_formed}

\* C21: for every datagram holding a well-formed tracking document that the
\* worker receives while the consumer holds the data channel, the worker puts
\* the one frame decoded from it on the channel.
C21_WellFormedDatagramForwarded ==
    [][\A g \in Gens, d \in WellFormedDatagrams :
          (WorkerRecvDatagram(g, d) /\ DataReceiverAlive(g)) =>
              /\ sent' = Append(sent, DataFrom(d.doc))
              /\ dataq' = [dataq EXCEPT ![g] = Append(@, DataFrom(d.doc))]]_vars

\* what the worker does with such a datagram: it logs a decoding error and
\* sends nothing
WellFormedDatagramDropped ==
    [][\A g \in Gens, d \in WellFormedDatagrams :
          WorkerRecvDatagram(g, d) =>
              /\ wlog' = Msg("error", "Error while receiving data")
              /\ UNCHANGED <<sent, dataq>>]_vars


(***************************************************************************)
(* Receiver properties: start() that fails, restart                        *)
(***************************************************************************)
StartFails(env) ==
    \/ ~ip_address.some
    \/ Bind(env.bind) # "Ok"
    \/ ~env.set_nonblocking
    \/ ~env.connect

OpenSockets == {g \in Gens : SocketOpen(g)}

\* C22: a start() with no address configured, or whose bind, set_nonblocking or
\* connect fails, returns a status other than OK and does not panic; it spawns
\* no worker, leaves no socket open that was not open before, and leaves the
\* join handle, the cancellation sender and the data receiver as they were.
C22_FailedStartLeavesReceiver ==
    [][\A env \in StartEnvs :
          (start(env) /\ StartFails(env)) =>
              /\ ret' \in {"ERR_UNCONFIGURED", "ERR_CANT_CONNECT", "ERR_CANT_CREATE"}
              /\ workers' = workers
              /\ OpenSockets' = OpenSockets
              /\ UNCHANGED <<receive_handle, thread_killer, receiver>>
              /\ UNCHANGED <<dataq, cancelq>>]_vars

\* a start() failed while an earlier start()'s worker was running, and that
\* worker, its socket and the three fields are still in place
C22_Witness ==
    /\ op = "start" /\ ret = "ERR_CANT_CONNECT"
    /\ receive_handle # None /\ Alive(receive_handle)
    /\ thread_killer = receive_handle /\ receiver = receive_handle
    /\ OpenSockets = {receive_handle}


\* C23: a receive of the worker that ends in a timeout is not logged as an
\* error, and the worker goes on to its next iteration.
C23_TimeoutNotAnError ==
    [][\A g \in Gens :
          WorkerRecv(g, [kind |-> "timeout", doc |-> <<>>]) =>
              /\ wlog'.lvl # "error"
              /\ workers'[g] = "top"]_vars

\* the worker does go on to its next iteration after a timeout
TimeoutContinues ==
    [][\A g \in Gens :
          WorkerRecv(g, [kind |-> "timeout", doc |-> <<>>]) => workers'[g] = "top"]_vars

\* the environment lets every socket call of one start() succeed
EnvAllows(env) == env.bind /\ env.set_nonblocking /\ env.set_read_timeout /\ env.connect

\* a worker was started and stop() has joined it: no handle is held
Stopped == /\ exists /\ cpc = "idle" /\ receive_handle = None /\ ip_address.some
           /\ \E g \in Gens : workers[g] = "done"

\* start(env) on a stopped receiver finds every earlier socket closed and, when
\* the environment allows, returns OK with a worker that did not run before, an
\* empty data channel to it and no pending cancellation
RestartStep(env) ==
    (Stopped /\ start(env)) =>
        /\ \A g \in Gens : ~SocketOpen(g)
        /\ Bind(env.bind) # "AddrInUse"
        /\ (EnvAllows(env) /\ Unborn # {}) =>
              /\ ret' = "OK"
              /\ workers[receiver'] = "unborn" /\ workers'[receiver'] = "top"
              /\ receiver' # receiver
              /\ receive_handle' = receiver' /\ thread_killer' = receiver'
              /\ dataq'[receiver'] = <<>> /\ cancelq'[receiver'] = 0
              /\ polled' = <<>>

\* the channel poll() reads is the newest worker's, and what was polled from it
\* and what is pending on it is what that worker sent, in order
FramesOfThisRun ==
    receiver # None =>
        /\ workers[receiver] # "unborn"
        /\ \A g \in Gens : g > receiver => workers[g] = "unborn"
        /\ sent = polled \o dataq[receiver]

\* C29: the receiver is restartable: a start() after start() and stop() finds
\* the port free (the joined worker's socket is closed), returns OK when the
\* environment allows, and installs a fresh worker and fresh channels; every
\* frame poll() gives afterwards was sent by the new worker.
C29_Restartable ==
    /\ [][\A env \in StartEnvs : RestartStep(env)]_vars
    /\ []FramesOfThisRun

\* the receiver was started, stopped and started again, and poll() found the
\* second worker's channel empty
C29_Witness ==
    /\ op = "poll" /\ ret = "()" /\ receiver = 2 /\ receive_handle = 2
    /\ workers[1] = "done" /\ Alive(2)
    /\ polled = <<>>

(***************************************************************************)
(* Puppet properties: the parallel blend-shape writes                      *)
(***************************************************************************)
\* the morph weights a frame's blend shapes give from the weights `w`, for every
\* order the parallel closures can run in
OrderResults(w, shapes) ==
    {ApplyShapes(w, shapes, order, 1) : order \in Orders(Len(shapes))}

\* no two blend shapes of the frame write the same morph
DisjointTargets(shapes) ==
    \A m \in DOMAIN weights : Cardinality(Writers(shapes, m)) <= 1

\* C24: the morph weights a VrmPuppet handler leaves are the same for every
\* interleaving of the parallel blend-shape writes of the frame.
C24_WeightsSameForEveryInterleaving ==
    [][(pop'.handler \in VrmHandlers /\ pret' = "()") =>
          OrderResults(weights, FrameShapes(pop')) = {weights'}]_vars

\* the same for the frames whose blend shapes write disjoint morphs
DisjointTargetsOrderFree ==
    [][(pop'.handler \in VrmHandlers /\ pret' = "()" /\ DisjointTargets(FrameShapes(pop'))) =>
          OrderResults(weights, FrameShapes(pop')) = {weights'}]_vars


(***************************************************************************)
(* Puppet properties: mesh handles                                         *)
(***************************************************************************)
\* C25: a VrmPuppet handler applying a frame while the mesh handle of its
\* targets no longer resolves to a live mesh does not panic.
C25_FreedMeshSkipped ==
    (pop.handler \in VrmHandlers /\ vrm.skeleton /\ ~avatar.mesh_live) => pret = "()"

\* while the mesh is live no handler of a ready puppet panics
LiveMeshNoPanic ==
    (pop.handler \in VrmHandlers /\ vrm.skeleton /\ avatar.mesh_live) => pret = "()"

LiveMeshStored ==
    (pop.handler = "VrmPuppet::ready" /\ vrm.skeleton /\ avatar.mesh_live) =>
        DOMAIN vrm.blend_shape_mappings = DOMAIN avatar.meshes


(***************************************************************************)
(* Puppet properties: the head bone that is not found                      *)
(***************************************************************************)
\* C26: when ready() did not find the head bone, no frame writes a bone pose,
\* and the blend-shape mapping was built all the same: it holds every blend
\* shape of the avatar's mesh.
C26_NoHeadBoneStillMapsShapes ==
    /\ (glb.skeleton /\ glb.head_bone_id < 0) => glb.head_pose_rotation.kind = "rest"
    /\ (pop.handler = "GlbPuppet::ready" /\ glb.head_bone_id < 0) =>
          DOMAIN glb.blend_shape_mappings = DOMAIN pop.frame.meshes

\* without a head bone no frame writes a bone pose
NoHeadBoneNoPoseWrite ==
    (glb.skeleton /\ glb.head_bone_id < 0) => glb.head_pose_rotation.kind = "rest"

\* with the head bone found the mapping holds every blend shape of the mesh
HeadBoneFoundMapsShapes ==
    (pop.handler = "GlbPuppet::ready" /\ glb.head_bone_id >= 0) =>
        DOMAIN glb.blend_shape_mappings = DOMAIN pop.frame.meshes

(***************************************************************************)
(* Log store properties                                                    *)
(***************************************************************************)
\* the messages of the store that flush t's clear() removes were written to
\* the file t opened
ClearRemovesWritten(t) ==
    (FlushClear(t) /\ logging[t].opened) =>
        \A i \in 1..Len(LOG_STORE) : LOG_STORE[i] \in log_file

\* C30: whatever the interleaving of the worker's and the consumer's logging
\* calls, the store never holds more than MAX_LOGS messages, and no message is
\* removed by a flush's clear() before it was written to the log file.
C30_NoRaceOnLogStore ==
    /\ [](Len(LOG_STORE) <= MAX_LOGS)
    /\ [][\A t \in LogThreads : ClearRemovesWritten(t)]_vars

\* C30 while only the consumer thread logs, which conforms to it
OneThreadKeepsBound ==
    /\ [](log_calls["worker"] = 0 => Len(LOG_STORE) <= MAX_LOGS)
    /\ [][log_calls["worker"] = 0 => ClearRemovesWritten("consumer")]_vars

====
